---- MODULE Spec2Model ----
(***************************************************************************)
(* The bounding-box conversion pipeline of the thumbnail scripts:          *)
(*   scripts/Customvision_Predict_To_Labelstudio.py                        *)
(*       convert_to_coco, convert_to_labelstudio                           *)
(*   scripts/Customvision_Upload_And_Train.py                              *)
(*       convert_coco_to_azure_uploads                                     *)
(*                                                                         *)
(* Python floats are modelled as exact rationals [n, d] in lowest terms    *)
(* with d > 0, so that *, / and round(., 2) are computed, not assumed.     *)
(* The Korean tag names of LABEL_INFO are written in ASCII:                *)
(*   "brand_logo" = 브랜드/로고, "person" = 인물,                          *)
(*   "character"  = 캐릭터,      "text"   = 텍스트.                        *)
(***************************************************************************)
EXTENDS FiniteSets, Integers, Sequences, TLC

VARIABLES
    pc,             \* the call the scripts are about to make
    coco,           \* convert_to_coco: the dict under construction
    ann_id,         \* convert_to_coco: the next annotation id
    responses,      \* what predict_image returned, one entry per image
    error,          \* exception raised in the predict script, or "none"
    label_data,     \* what convert_to_labelstudio returned
    upload_coco,    \* upload_and_train: the dict loaded from result.json
    tag_map,        \* upload_and_train: what get_tag_mapping returned
    uploads,        \* what convert_coco_to_azure_uploads returned
    upload_error,   \* exception raised in the upload script, or "none"
    LABEL_INFO,     \* module global of the predict script: tag -> id, threshold
    IMAGE_FOLDER,   \* module global of the predict script: the image folder
    coco_again,     \* what a second call of convert_to_coco returned
    label_data_again, \* what a second call of convert_to_labelstudio returned
    prediction_url, \* what get_latest_published_iteration_url returned
    tpc,            \* upload_and_train: the statement it is about to run
    iterations,     \* the iterations of the project, as the service lists them
    iteration_name, \* upload_and_train: what get_next_iteration_name returned
    timeout,        \* wait_for_training_completion: its argument
    start_time,     \* wait_for_training_completion: time.time() at its start
    now,            \* the clock time.time() reads, in seconds
    wait_result,    \* what wait_for_training_completion returned, or "pending"
    seen,           \* the statuses its last poll listed under iteration_name
    log,            \* the calls of upload_and_train and its publish requests
    item,           \* upload_to_custom_vision: the uploads item the loop is at
    batch,          \* upload_to_custom_vision: the batch under construction
    sent,           \* upload_to_custom_vision: the count send_batch returned
    posted,         \* the batches of the send_batch requests, in their order
    absent,         \* the file names os.path.exists does not find
    lpc,            \* run_label_studio: the statement it is about to run
    pid_file,       \* what labelstudio.pid holds, NoFile when it does not exist
    pid,            \* stop_label_studio: the pid it read
    process,        \* run_label_studio: the pid of the process it started
    alive,          \* the pids of the running Label Studio processes
    started,        \* the pids Popen returned, in their order
    kills,          \* the calls of os.kill, in their order
    runs,           \* the calls of run_label_studio so far
    recorded,       \* what labelstudio.pid held when the current call began
    output_file,    \* azure_to_labelstudio.json, as this run of the script left it
    cpc,            \* crawl_youtube_trending: the statement it is about to run
    driver,         \* the browser driver: "none", "running" or "quit"
    page,           \* all_video_elements: the link of each element
    thumbnails,     \* the video ids with a file in image_folder
    video,          \* crawl_youtube_trending: the element the loop is at
    video_data,     \* crawl_youtube_trending: the rows collected
    downloaded,     \* the thumbnails downloaded and verified
    csv_written,    \* the rankings file has been written
    crawl_result,   \* what crawl_youtube_trending returned, or "pending"
    quit_calls,     \* the calls of driver.quit
    printed         \* what the loop of crawl_youtube_trending printed

\* the module globals that hold the settings
settings == <<LABEL_INFO, IMAGE_FOLDER>>

\* the results of the second calls
again == <<coco_again, label_data_again>>

\* the state of the training part of upload_and_train
train == <<tpc, iterations, iteration_name, timeout, start_time, now,
           wait_result, seen, log>>

\* the state of upload_to_custom_vision
upload == <<item, batch, sent, posted, absent>>

\* the state of run_label_studio and stop_label_studio
studio == <<lpc, pid_file, pid, process, alive, started, kills, runs, recorded>>

\* the state of the other functions of the scripts
\* the state of crawl_youtube_trending
crawl == <<cpc, driver, page, thumbnails, video, video_data, downloaded,
           csv_written, crawl_result, quit_calls, printed>>

others == <<upload, studio, output_file, crawl>>

vars == <<pc, coco, ann_id, responses, error, label_data,
          upload_coco, tag_map, uploads, upload_error, settings, again,
          prediction_url, train, others>>

(***************************************************************************)
(* Bounds of the model.                                                    *)
(***************************************************************************)
\* images in IMAGE_FOLDER that one run lists
MaxImages == 2
\* predictions the detector returns over one run, all images together
MaxPredictions == 3

(***************************************************************************)
(* Rational arithmetic standing for Python's float operations.             *)
(***************************************************************************)
Abs(n) == IF n < 0 THEN 0 - n ELSE n

RECURSIVE GCD(_, _)
GCD(a, b) == IF b = 0 THEN a ELSE GCD(b, a % b)

\* the rational n/d in lowest terms, d # 0
Rat(n, d) ==
    LET g == GCD(Abs(n), Abs(d))
        s == IF d < 0 THEN 0 - 1 ELSE 1
    IN  [n |-> (s * n) \div g, d |-> (s * d) \div g]

\* a * k for an int k (bbox["left"] * width)
Mul(a, k) == Rat(a.n * k, a.d)

\* a / k for an int k # 0 (x / image_info["width"])
Div(a, k) == Rat(a.n, a.d * k)

\* a * b for two floats (w * h)
MulRat(a, b) == Rat(a.n * b.n, a.d * b.d)

\* a < b (prob < threshold)
Lt(a, b) == a.n * b.d < b.n * a.d

\* a cut after 2 decimal digits in the place of round(a, 2)
Round2_Truncate(a) == Rat((a.n * 100) \div a.d, 100)

\* round(a, 2): the nearest multiple of 1/100, a tie going to the even one
Round2(a) ==
    LET s == a.n * 100
        q == s \div a.d
        r == s - q * a.d
        m == IF 2 * r < a.d THEN q
             ELSE IF 2 * r > a.d THEN q + 1
             ELSE IF q % 2 = 0 THEN q ELSE q + 1
    IN  Rat(m, 100)

(***************************************************************************)
(* Configuration: the values the module globals are given at import.       *)
(***************************************************************************)
LabelInfoAtImport ==
    ("brand_logo" :> [id |-> 1, threshold |-> Rat(9, 10)]) @@
    ("person"     :> [id |-> 2, threshold |-> Rat(9, 10)]) @@
    ("character"  :> [id |-> 3, threshold |-> Rat(9, 10)]) @@
    ("text"       :> [id |-> 4, threshold |-> Rat(9, 10)])

\* the iteration order of LABEL_INFO.items()
LabelOrder == <<"brand_logo", "person", "character", "text">>

\* IMAGE_FOLDER = os.path.join(BASE_DIR, "data", "Youtube_Tranding",
\* "thumbnails2") on a host whose separator is the backslash, as a sequence
\* of path tokens
ImageFolderAtImport ==
    <<"C:", "\\", "repo", "\\", "data", "\\", "Youtube_Tranding", "\\",
      "thumbnails2">>

(***************************************************************************)
(* Inputs: the image files of IMAGE_FOLDER and the detector's answers.     *)
(***************************************************************************)
Box(l, t, w, h) == [left |-> l, top |-> t, width |-> w, height |-> h]

Prediction(tag, prob, box) ==
    [tagName |-> tag, probability |-> prob, boundingBox |-> box]

\* the files os.listdir can list, with the size Image.open reports
ImageFolder ==
    { [file_name |-> "a.jpg",  width |-> 1000, height |-> 500],
      [file_name |-> "b.png",  width |-> 640,  height |-> 360],
      [file_name |-> "c.jpeg", width |-> 0,    height |-> 500] }

\* the predictions one response of predict_image can hold
PredictionSet ==
    { \* above the threshold, the box of the worked example
      Prediction("text", Rat(95, 100),
                 Box(Rat(1, 10), Rat(2, 10), Rat(3, 10), Rat(4, 10))),
      \* exactly at the threshold, a box that leaves the unit square
      Prediction("person", Rat(90, 100),
                 Box(Rat(0 - 1, 4), Rat(1, 32), Rat(5, 4), Rat(2, 3))),
      \* below the threshold
      Prediction("character", Rat(89, 100),
                 Box(Rat(1, 3), Rat(1, 8), Rat(1, 3), Rat(1, 8))),
      \* a tag that LABEL_INFO does not hold ("background")
      Prediction("background", Rat(99, 100),
                 Box(Rat(0, 1), Rat(0, 1), Rat(1, 1), Rat(1, 1))) }

\* every sequence over S of length at most k
SeqsUpTo(S, k) == UNION { [1..n -> S] : n \in 0..k }

(***************************************************************************)
(* convert_to_coco                                                         *)
(***************************************************************************)
\* line 174 with <= in the place of <: a prediction at the threshold is lost
Skip_AtThreshold(label, prob) ==
    label \notin DOMAIN LABEL_INFO \/ ~Lt(LABEL_INFO[label].threshold, prob)

\* line 174: the condition under which the prediction is passed over
Skip(label, prob) ==
    label \notin DOMAIN LABEL_INFO \/ Lt(prob, LABEL_INFO[label].threshold)

\* lines 177-183 with top scaled by the width
PixelBox_TopByWidth(bbox, width, height) ==
    << Mul(bbox.left, width), Mul(bbox.top, width),
       Mul(bbox.width, width), Mul(bbox.height, height) >>

\* lines 162-163 with the size unpacked as (height, width)
PixelBox_SizeSwapped(bbox, width, height) ==
    << Mul(bbox.left, height), Mul(bbox.top, width),
       Mul(bbox.width, height), Mul(bbox.height, width) >>

\* a fraction brought back into [0, 1]
Clamp(a) == IF a.n < 0 THEN Rat(0, 1) ELSE IF a.n > a.d THEN Rat(1, 1) ELSE a

\* lines 177-183 with every component of the box clamped to [0, 1]
PixelBox_Clamped(bbox, width, height) ==
    << Mul(Clamp(bbox.left), width), Mul(Clamp(bbox.top), height),
       Mul(Clamp(bbox.width), width), Mul(Clamp(bbox.height), height) >>

\* lines 177-183: the pixel box
PixelBox(bbox, width, height) ==
    << Mul(bbox.left, width), Mul(bbox.top, height),
       Mul(bbox.width, width), Mul(bbox.height, height) >>

\* lines 185-195: the annotation appended for a kept prediction
Annotation(id, img_id, pred, width, height) ==
    LET b == PixelBox(pred.boundingBox, width, height)
    IN  [id          |-> id,
         image_id    |-> img_id,
         category_id |-> LABEL_INFO[pred.tagName].id,
         bbox        |-> b,
         area        |-> MulRat(b[3], b[4]),
         iscrowd     |-> 0,
         score       |-> pred.probability]

\* lines 171-196: the loop over the predictions of one image, from the k-th
RECURSIVE PredictionLoop(_, _, _, _, _)
PredictionLoop(preds, k, img, anns, next_id) ==
    IF k > Len(preds)
    THEN [annotations |-> anns, ann_id |-> next_id]
    ELSE LET pred == preds[k]
         IN  IF Skip(pred.tagName, pred.probability)
             THEN PredictionLoop(preds, k + 1, img, anns, next_id)
             ELSE PredictionLoop(preds, k + 1, img,
                      Append(anns, Annotation(next_id, img.id, pred,
                                              img.width, img.height)),
                      next_id + 1)

\* line 157
Categories == [k \in 1..Len(LabelOrder) |->
                 [id |-> LABEL_INFO[LabelOrder[k]].id, name |-> LabelOrder[k]]]

\* the number of predictions received so far
RECURSIVE Received(_)
Received(rs) == IF rs = <<>> THEN 0 ELSE Len(Head(rs)) + Received(Tail(rs))

\* the images dict of both converters: {img["id"]: img}
ImageById(c, id) ==
    CHOOSE img \in { c.images[k] : k \in 1..Len(c.images) } : img.id = id

\* the categories dict of both converters: {cat["id"]: cat["name"]}
CategoryName(c, id) ==
    (CHOOSE cat \in { c.categories[k] : k \in 1..Len(c.categories) } :
        cat.id = id).name

(***************************************************************************)
(* convert_to_labelstudio                                                  *)
(***************************************************************************)
\* str.replace(old, new) on a sequence of tokens
Replace(s, old, new) == [k \in 1..Len(s) |-> IF s[k] = old THEN new ELSE s[k]]

\* lines 220-224 without the call of replace
FilePath_NoReplace(file_name) ==
    <<"/data/local-files/?d=">> \o IMAGE_FOLDER \o <<"/", file_name>>

\* lines 220-224: the key of the task of an image
FilePath(file_name) ==
    Replace(<<"/data/local-files/?d=">> \o IMAGE_FOLDER \o <<"/", file_name>>,
            "\\", "/")

\* lines 238-241 without the division by the dimension
Percent_NoDivision(v, dim) == Round2(Mul(v, 100))

\* lines 238-241: one coordinate as a percentage of a dimension # 0
Percent(v, dim) == Round2(Mul(Div(v, dim), 100))

\* lines 232-248 with from_name and to_name exchanged
Result_NamesSwapped(ann, image_info, label) ==
    [original_width  |-> image_info.width,
     original_height |-> image_info.height,
     image_rotation  |-> 0,
     value |-> [x      |-> Percent(ann.bbox[1], image_info.width),
                y      |-> Percent(ann.bbox[2], image_info.height),
                width  |-> Percent(ann.bbox[3], image_info.width),
                height |-> Percent(ann.bbox[4], image_info.height),
                rotation |-> 0,
                rectanglelabels |-> <<label>>],
     from_name |-> "image",
     to_name   |-> "label",
     type      |-> "rectanglelabels"]

\* lines 232-248
Result(ann, image_info, label) ==
    [original_width  |-> image_info.width,
     original_height |-> image_info.height,
     image_rotation  |-> 0,
     value |-> [x      |-> Percent(ann.bbox[1], image_info.width),
                y      |-> Percent(ann.bbox[2], image_info.height),
                width  |-> Percent(ann.bbox[3], image_info.width),
                height |-> Percent(ann.bbox[4], image_info.height),
                rotation |-> 0,
                rectanglelabels |-> <<label>>],
     from_name |-> "label",
     to_name   |-> "image",
     type      |-> "rectanglelabels"]

\* the position of the task with this key in task_map, 0 when there is none
TaskIndex(task_map, file_path) ==
    IF \E k \in 1..Len(task_map) : task_map[k].data.image = file_path
    THEN CHOOSE k \in 1..Len(task_map) : task_map[k].data.image = file_path
    ELSE 0

\* lines 226-230 without the test of line 226: the task is created anew for
\* every annotation and loses the results it held
AddResult_Reset(task_map, file_path, result) ==
    LET fresh == [data |-> [image |-> file_path],
                  annotations |-> <<[result |-> <<result>>]>>]
        i     == TaskIndex(task_map, file_path)
    IN  IF i = 0 THEN Append(task_map, fresh)
        ELSE [task_map EXCEPT ![i] = fresh]

\* lines 226-230 and 249: the task of file_path created when missing, and
\* the result appended to it
AddResult(task_map, file_path, result) ==
    LET tm == IF TaskIndex(task_map, file_path) = 0
              THEN Append(task_map,
                          [data |-> [image |-> file_path],
                           annotations |-> <<[result |-> <<>>]>>])
              ELSE task_map
        i  == TaskIndex(tm, file_path)
    IN  [tm EXCEPT ![i].annotations[1].result = Append(@, result)]

\* lines 218-251: the loop over the annotations, from the k-th; a division
\* by a zero dimension raises ZeroDivisionError and nothing is returned
RECURSIVE TaskLoop(_, _, _)
TaskLoop(c, k, task_map) ==
    IF k > Len(c.annotations)
    THEN [value |-> task_map, error |-> "none"]
    ELSE LET ann        == c.annotations[k]
             image_info == ImageById(c, ann.image_id)
             file_path  == FilePath(image_info.file_name)
         IN  IF image_info.width = 0 \/ image_info.height = 0
             THEN [value |-> <<>>, error |-> "ZeroDivisionError"]
             ELSE TaskLoop(c, k + 1,
                      AddResult(task_map, file_path,
                          Result(ann, image_info,
                                 CategoryName(c, ann.category_id))))

(***************************************************************************)
(* convert_coco_to_azure_uploads                                           *)
(***************************************************************************)
\* lines 118-124 with the percentages of convert_to_labelstudio
Region_Percent(ann, width, height, tag) ==
    [tagId  |-> tag,
     left   |-> Percent(ann.bbox[1], width),
     top    |-> Percent(ann.bbox[2], height),
     width  |-> Percent(ann.bbox[3], width),
     height |-> Percent(ann.bbox[4], height)]

\* lines 118-124 with top divided by the width
Region_TopByWidth(ann, width, height, tag) ==
    [tagId  |-> tag,
     left   |-> Div(ann.bbox[1], width),
     top    |-> Div(ann.bbox[2], width),
     width  |-> Div(ann.bbox[3], width),
     height |-> Div(ann.bbox[4], height)]

\* lines 118-124
Region(ann, width, height, tag) ==
    [tagId  |-> tag,
     left   |-> Div(ann.bbox[1], width),
     top    |-> Div(ann.bbox[2], height),
     width  |-> Div(ann.bbox[3], width),
     height |-> Div(ann.bbox[4], height)]

\* the position of file_name in the uploads dict, 0 when it is no key
UploadIndex(ups, file_name) ==
    IF \E k \in 1..Len(ups) : ups[k].file_name = file_name
    THEN CHOOSE k \in 1..Len(ups) : ups[k].file_name = file_name
    ELSE 0

\* lines 126-128
AddRegion(ups, file_name, region) ==
    LET u == IF UploadIndex(ups, file_name) = 0
             THEN Append(ups, [file_name |-> file_name, regions |-> <<>>])
             ELSE ups
        i == UploadIndex(u, file_name)
    IN  [u EXCEPT ![i].regions = Append(@, region)]

\* lines 114-115: the annotation is passed over
Untagged(tags, category_name) == category_name \notin DOMAIN tags

\* lines 108-130 without lines 114-115: tag_map[category_name] raises
\* KeyError for a category that has no tag
RECURSIVE UploadLoop_NoSkip(_, _, _, _)
UploadLoop_NoSkip(c, tags, k, ups) ==
    IF k > Len(c.annotations)
    THEN [value |-> ups, error |-> "none"]
    ELSE LET ann           == c.annotations[k]
             image_info    == ImageById(c, ann.image_id)
             category_name == CategoryName(c, ann.category_id)
         IN  IF Untagged(tags, category_name)
             THEN [value |-> <<>>, error |-> "KeyError"]
             ELSE IF image_info.width = 0 \/ image_info.height = 0
             THEN [value |-> <<>>, error |-> "ZeroDivisionError"]
             ELSE UploadLoop_NoSkip(c, tags, k + 1,
                      AddRegion(ups, image_info.file_name,
                          Region(ann, image_info.width, image_info.height,
                                 tags[category_name])))

\* lines 108-130: the loop over the annotations, from the k-th
RECURSIVE UploadLoop(_, _, _, _)
UploadLoop(c, tags, k, ups) ==
    IF k > Len(c.annotations)
    THEN [value |-> ups, error |-> "none"]
    ELSE LET ann           == c.annotations[k]
             image_info    == ImageById(c, ann.image_id)
             category_name == CategoryName(c, ann.category_id)
         IN  IF Untagged(tags, category_name)
             THEN UploadLoop(c, tags, k + 1, ups)
             ELSE IF image_info.width = 0 \/ image_info.height = 0
             THEN [value |-> <<>>, error |-> "ZeroDivisionError"]
             ELSE UploadLoop(c, tags, k + 1,
                      AddRegion(ups, image_info.file_name,
                          Region(ann, image_info.width, image_info.height,
                                 tags[category_name])))

\* the tags the training project can hold: every label, or all but one
TagMaps ==
    { ("brand_logo" :> "tag-1") @@ ("person" :> "tag-2") @@
      ("character" :> "tag-3") @@ ("text" :> "tag-4"),
      ("brand_logo" :> "tag-1") @@ ("character" :> "tag-3") @@
      ("text" :> "tag-4") }

\* s with its first r elements moved to the end
Rotate(s, r) ==
    [k \in 1..Len(s) |-> s[((k - 1 + r) % Len(s)) + 1]]

(***************************************************************************)
(* The scripts.                                                            *)
(***************************************************************************)
\* the predict script is about to call convert_to_coco
InitConvert ==
    /\ LABEL_INFO = LabelInfoAtImport
    /\ IMAGE_FOLDER = ImageFolderAtImport
    /\ pc = "convert_to_coco"
    /\ coco = [images |-> <<>>, annotations |-> <<>>, categories |-> Categories]
    /\ ann_id = 1
    /\ responses = <<>>
    /\ error = "none"
    /\ label_data = <<>>
    /\ upload_coco = [images |-> <<>>, annotations |-> <<>>, categories |-> <<>>]
    /\ tag_map = <<>>
    /\ uploads = <<>>
    /\ upload_error = "none"
    /\ coco_again = [images |-> <<>>, annotations |-> <<>>, categories |-> <<>>]
    /\ label_data_again = [value |-> <<>>, error |-> "none"]
    /\ prediction_url = <<>>

\* upload_and_train has not reached its training part
IdleTrain ==
    /\ tpc = "idle"
    /\ iterations = <<>>
    /\ iteration_name = <<>>
    /\ timeout = 0
    /\ start_time = 0
    /\ now = 0
    /\ wait_result = "pending"
    /\ seen = <<>>
    /\ log = <<>>

\* upload_to_custom_vision has not been called
IdleUpload ==
    /\ item = 1
    /\ batch = <<>>
    /\ sent = 0
    /\ posted = <<>>
    /\ absent = {}

\* labelstudio.pid does not exist
NoFile == 0

\* run_label_studio has not been called
IdleStudio ==
    /\ lpc = "idle"
    /\ pid_file = NoFile
    /\ pid = NoFile
    /\ process = NoFile
    /\ alive = {}
    /\ started = <<>>
    /\ kills = <<>>
    /\ runs = 0
    /\ recorded = NoFile

\* the file OUTPUT_PATH before line 331
Unwritten == [written |-> FALSE, content |-> <<>>]

\* crawl_youtube_trending has not been called
IdleCrawl ==
    /\ cpc = "idle"
    /\ driver = "none"
    /\ page = <<>>
    /\ thumbnails = {}
    /\ video = 1
    /\ video_data = <<>>
    /\ downloaded = 0
    /\ csv_written = FALSE
    /\ crawl_result = "pending"
    /\ quit_calls = 0
    /\ printed = <<>>

IdleOthers == IdleUpload /\ IdleStudio /\ output_file = Unwritten /\ IdleCrawl

Init == InitConvert /\ IdleTrain /\ IdleOthers

\* convert_to_coco, lines 161-196: one turn of the loop over the images
CocoImage ==
    /\ pc = "convert_to_coco"
    /\ Len(coco.images) < MaxImages
    /\ \E file \in ImageFolder,
          preds \in SeqsUpTo(PredictionSet, MaxPredictions - Received(responses)) :
          /\ \A k \in 1..Len(coco.images) : coco.images[k].file_name # file.file_name
          /\ LET img == [id |-> Len(coco.images) + 1, file_name |-> file.file_name,
                         width |-> file.width, height |-> file.height]
                 r   == PredictionLoop(preds, 1, img, coco.annotations, ann_id)
             IN  /\ coco' = [coco EXCEPT !.images = Append(@, img),
                                         !.annotations = r.annotations]
                 /\ ann_id' = r.ann_id
                 /\ responses' = Append(responses, preds)
    /\ UNCHANGED <<pc, error, label_data, upload_coco, tag_map, uploads, upload_error>>
    /\ UNCHANGED <<settings, again, prediction_url, train, others>>

\* convert_to_coco, line 198: the list of images is exhausted
CocoReturn ==
    /\ pc = "convert_to_coco"
    /\ pc' = "convert_to_labelstudio"
    /\ UNCHANGED <<coco, ann_id, responses, error, label_data,
                   upload_coco, tag_map, uploads, upload_error>>
    /\ UNCHANGED <<settings, again, prediction_url, train, others>>

\* predict_to_labelstudio, line 328
ConvertToLabelstudio ==
    /\ pc = "convert_to_labelstudio"
    /\ LET r == TaskLoop(coco, 1, <<>>)
       IN  /\ label_data' = r.value
           /\ error' = r.error
    /\ pc' = "json_load"
    /\ UNCHANGED <<coco, ann_id, responses, upload_coco, tag_map, uploads, upload_error>>
    /\ UNCHANGED <<settings, again, prediction_url, train, others>>

\* upload_and_train, lines 310-311: result.json holds the images and the
\* annotations of the batch, the annotations in an order of its own
LoadCoco ==
    /\ pc = "json_load"
    /\ \E r \in 0..1 :
          upload_coco' = [coco EXCEPT !.annotations = Rotate(@, r)]
    /\ pc' = "get_tag_mapping"
    /\ UNCHANGED <<coco, ann_id, responses, error, label_data, tag_map,
                   uploads, upload_error>>
    /\ UNCHANGED <<settings, again, prediction_url, train, others>>

\* upload_and_train, line 315
GetTagMapping ==
    /\ pc = "get_tag_mapping"
    /\ \E tags \in TagMaps : tag_map' = tags
    /\ pc' = "convert_coco_to_azure_uploads"
    /\ UNCHANGED <<coco, ann_id, responses, error, label_data, upload_coco,
                   uploads, upload_error>>
    /\ UNCHANGED <<settings, again, prediction_url, train, others>>

\* upload_and_train, line 318
ConvertCocoToAzureUploads ==
    /\ pc = "convert_coco_to_azure_uploads"
    /\ LET r == UploadLoop(upload_coco, tag_map, 1, <<>>)
       IN  /\ uploads' = r.value
           /\ upload_error' = r.error
    /\ pc' = "done"
    /\ UNCHANGED <<coco, ann_id, responses, error, label_data, upload_coco, tag_map>>
    /\ UNCHANGED <<settings, again, prediction_url, train, others>>

Next ==
    \/ CocoImage
    \/ CocoReturn
    \/ ConvertToLabelstudio
    \/ LoadCoco
    \/ GetTagMapping
    \/ ConvertCocoToAzureUploads

Spec == Init /\ [][Next]_vars

(***************************************************************************)
(* The converters called a second time with the arguments of the first     *)
(* call, after the settings section of the predict script (lines 30-41:    *)
(* "values to change") has been given other values.                        *)
(***************************************************************************)
\* the values LABEL_INFO can be given: the thresholds are the user's choice
LabelInfos ==
    { LabelInfoAtImport,
      [LabelInfoAtImport EXCEPT !["person"].threshold = Rat(95, 100)] }

\* the values IMAGE_FOLDER can be given
ImageFolders ==
    { ImageFolderAtImport, <<"/", "srv", "/", "thumbnails">> }

\* convert_to_coco, lines 154-198, as one function of the image files and
\* of what predict_image answers for each of them
RECURSIVE ConvertToCoco(_, _, _, _)
ConvertToCoco(files, rs, c, next_id) ==
    IF Len(c.images) = Len(files)
    THEN c
    ELSE LET k   == Len(c.images) + 1
             img == [id |-> k, file_name |-> files[k].file_name,
                     width |-> files[k].width, height |-> files[k].height]
             r   == PredictionLoop(rs[k], 1, img, c.annotations, next_id)
         IN  ConvertToCoco(files, rs,
                 [c EXCEPT !.images = Append(@, img),
                           !.annotations = r.annotations],
                 r.ann_id)

\* lines 30-41: the globals are bound to other values
EditSettings ==
    /\ pc = "json_load"
    /\ LABEL_INFO' \in LabelInfos
    /\ IMAGE_FOLDER' \in ImageFolders
    /\ pc' = "convert_to_coco_again"
    /\ UNCHANGED <<coco, ann_id, responses, error, label_data,
                   upload_coco, tag_map, uploads, upload_error, again,
                   prediction_url, train, others>>

\* line 325, with the same image files and the same answers of the detector
ConvertToCocoAgain ==
    /\ pc = "convert_to_coco_again"
    /\ coco_again' = ConvertToCoco(coco.images, responses,
           [images |-> <<>>, annotations |-> <<>>, categories |-> Categories], 1)
    /\ pc' = "convert_to_labelstudio_again"
    /\ UNCHANGED <<coco, ann_id, responses, error, label_data, upload_coco,
                   tag_map, uploads, upload_error, settings, label_data_again,
                   prediction_url, train, others>>

\* line 328, with the dict the first call was given
ConvertToLabelstudioAgain ==
    /\ pc = "convert_to_labelstudio_again"
    /\ label_data_again' = TaskLoop(coco, 1, <<>>)
    /\ pc' = "called_twice"
    /\ UNCHANGED <<coco, ann_id, responses, error, label_data, upload_coco,
                   tag_map, uploads, upload_error, settings, coco_again,
                   prediction_url, train, others>>

NextAgain ==
    \/ CocoImage
    \/ CocoReturn
    \/ ConvertToLabelstudio
    \/ EditSettings
    \/ ConvertToCocoAgain
    \/ ConvertToLabelstudioAgain

SpecAgain == Init /\ [][NextAgain]_vars

(***************************************************************************)
(* Vocabulary of the properties.                                           *)
(***************************************************************************)
\* the label is a key of the category mapping
Registered(p) == p.tagName \in DOMAIN LABEL_INFO

\* a >= b
Ge(a, b) == a.n * b.d >= b.n * a.d

\* keep = (label in mapping) AND (confidence >= mapping[label].threshold)
Kept(p) ==
    /\ Registered(p)
    /\ Ge(p.probability, LABEL_INFO[p.tagName].threshold)

\* the images convert_to_coco has gone through
Processed == 1..Len(responses)

\* the annotations of image i in c, in the order of c
AnnsOf(c, i) == SelectSeq(c.annotations, LAMBDA a : a.image_id = i)

\* the predictions of image i that satisfy the keep predicate, in order
KeptOf(i) == SelectSeq(responses[i], Kept)

\* every kept prediction of the run, in the order of the images
RECURSIVE KeptUpTo(_)
KeptUpTo(i) == IF i = 0 THEN <<>> ELSE KeptUpTo(i - 1) \o KeptOf(i)

\* convert_to_labelstudio has returned a value
TasksReturned == pc \notin {"convert_to_coco", "convert_to_labelstudio"} /\ error = "none"

\* convert_coco_to_azure_uploads has returned a value
UploadsReturned == pc = "done" /\ upload_error = "none"

\* the results of the task of image i, <<>> when it has no task
ResultsOf(i) ==
    LET key == FilePath(coco.images[i].file_name)
        ts  == SelectSeq(label_data, LAMBDA t : t.data.image = key)
    IN  IF ts = <<>> THEN <<>> ELSE ts[1].annotations[1].result

\* the regions uploaded for image i, <<>> when its file is no key
RegionsOf(i) ==
    LET us == SelectSeq(uploads,
                  LAMBDA u : u.file_name = upload_coco.images[i].file_name)
    IN  IF us = <<>> THEN <<>> ELSE us[1].regions

\* the annotations of image i in result.json whose category has a tag
TaggedOf(i) ==
    SelectSeq(upload_coco.annotations,
              LAMBDA a : /\ a.image_id = i
                         /\ CategoryName(upload_coco, a.category_id) \in DOMAIN tag_map)

\* s without the repetitions, each element at its first position
RECURSIVE FirstSeen(_)
FirstSeen(s) ==
    IF s = <<>> THEN <<>>
    ELSE LET init == FirstSeen(SubSeq(s, 1, Len(s) - 1))
             last == s[Len(s)]
         IN  IF \E k \in 1..Len(init) : init[k] = last
             THEN init ELSE Append(init, last)

\* v is a * k
IsProduct(v, a, k) == v.n * a.d = a.n * k * v.d

\* a lies in [lo, hi], two integers
Within(a, lo, hi) == lo * a.d <= a.n /\ a.n <= hi * a.d

\* every component of the fractional box lies in [0, 1]
InUnitSquare(b) ==
    /\ Within(b.left, 0, 1) /\ Within(b.top, 0, 1)
    /\ Within(b.width, 0, 1) /\ Within(b.height, 0, 1)

ExampleBox == Box(Rat(1, 10), Rat(2, 10), Rat(3, 10), Rat(4, 10))

(***************************************************************************)
(* The training part of upload_and_train                                   *)
(* (scripts/Customvision_Upload_And_Train.py, lines 320-338).              *)
(*                                                                         *)
(* An iteration name is a sequence of tokens: the word "Iteration", a      *)
(* space, a digit, a sign or another character, so that startswith,        *)
(* replace, strip, int and the f-string are computed on the text.          *)
(***************************************************************************)
\* iterations the project holds before the run
MaxIterations == 2
\* the timeouts wait_for_training_completion is called with: a multiple of
\* TimeoutStep seconds, at most MaxWait of them
MaxWait == 3

\* the seconds between two timeouts of the model
TimeoutStep == 20

\* interval=30, the default of wait_for_training_completion
Interval == 30

\* the seconds a status request can take
Latency == {0, 7}

Timeouts == { w * TimeoutStep : w \in 0..MaxWait }

Digits == <<"0", "1", "2", "3", "4", "5", "6", "7", "8", "9">>

IsDigit(t) == \E v \in 1..10 : Digits[v] = t

DigitValue(t) == (CHOOSE v \in 1..10 : Digits[v] = t) - 1

\* name.startswith("Iteration")
StartsWithIteration(name) == name # <<>> /\ name[1] = "Iteration"

\* name.replace("Iteration", "")
ReplaceIteration(name) == SelectSeq(name, LAMBDA t : t # "Iteration")

\* text.strip()
RECURSIVE Strip(_)
Strip(text) ==
    IF text = <<>> THEN text
    ELSE IF Head(text) = " " THEN Strip(Tail(text))
    ELSE IF text[Len(text)] = " " THEN Strip(SubSeq(text, 1, Len(text) - 1))
    ELSE text

\* the value of a run of digits, most significant first
RECURSIVE Decimal(_)
Decimal(ds) ==
    IF ds = <<>> THEN 0
    ELSE 10 * Decimal(SubSeq(ds, 1, Len(ds) - 1)) + DigitValue(ds[Len(ds)])

\* int(text): an optional sign and at least one digit, else ValueError
IntOf(text) ==
    LET signed == text # <<>> /\ text[1] \in {"-", "+"}
        ds     == IF signed THEN Tail(text) ELSE text
    IN  IF ds # <<>> /\ \A k \in 1..Len(ds) : IsDigit(ds[k])
        THEN [ok |-> TRUE,
              value |-> IF signed /\ text[1] = "-"
                        THEN 0 - Decimal(ds) ELSE Decimal(ds)]
        ELSE [ok |-> FALSE, value |-> 0]

\* str(n), as the f-string formats an int
RECURSIVE Str(_)
Str(n) ==
    IF n < 0 THEN <<"-">> \o Str(0 - n)
    ELSE IF n < 10 THEN <<Digits[n + 1]>>
    ELSE Str(n \div 10) \o <<Digits[(n % 10) + 1]>>

Max(a, b) == IF a >= b THEN a ELSE b

\* lines 62-69 with the last number parsed in the place of the largest
RECURSIVE NameLoop_LastWins(_, _, _)
NameLoop_LastWins(its, k, max_num) ==
    IF k > Len(its) THEN max_num
    ELSE LET name == its[k].name
             num  == IntOf(Strip(ReplaceIteration(name)))
         IN  IF StartsWithIteration(name) /\ num.ok
             THEN NameLoop_LastWins(its, k + 1, num.value)
             ELSE NameLoop_LastWins(its, k + 1, max_num)

\* lines 62-69: the loop over the iterations, from the k-th
RECURSIVE NameLoop(_, _, _)
NameLoop(its, k, max_num) ==
    IF k > Len(its) THEN max_num
    ELSE LET name == its[k].name
             num  == IntOf(Strip(ReplaceIteration(name)))
         IN  IF StartsWithIteration(name) /\ num.ok
             THEN NameLoop(its, k + 1, Max(max_num, num.value))
             ELSE NameLoop(its, k + 1, max_num)

\* lines 61-70
NextIterationName(its) == <<"Iteration", " ">> \o Str(NameLoop(its, 1, 0) + 1)

\* the names the iterations of a project can have
IterationNames ==
    { <<"Iteration", " ", "1">>, <<"Iteration", " ", "9">>,
      <<"Iteration", "1", "2">>, <<"Iteration", " ", "-", "3">>,
      <<"Iteration", " ", "v", "2">>, <<"b", "a", "s", "e", " ", "7">> }

\* an iteration trained in an earlier run
Trained(name) == [name |-> name, status |-> "Completed"]

\* lines 238-257 with "Canceled" taken for a status of a running training
RECURSIVE ForLoop_CanceledGoesOn(_, _, _)
ForLoop_CanceledGoesOn(its, k, name) ==
    IF k > Len(its) THEN "continue"
    ELSE IF its[k].name = name /\ its[k].status = "Completed" THEN "True"
    ELSE IF its[k].name = name /\ its[k].status = "Failed" THEN "False"
    ELSE ForLoop_CanceledGoesOn(its, k + 1, name)

\* lines 238-257: the loop over the listed iterations, from the k-th
RECURSIVE ForLoop(_, _, _)
ForLoop(its, k, name) ==
    IF k > Len(its) THEN "continue"
    ELSE IF its[k].name = name /\ its[k].status = "Completed" THEN "True"
    ELSE IF its[k].name = name /\ its[k].status \in {"Failed", "Canceled"}
         THEN "False"
    ELSE ForLoop(its, k + 1, name)

\* the statuses a list shows under a name
RECURSIVE StatusesOf(_, _)
StatusesOf(its, name) ==
    IF its = <<>> THEN <<>>
    ELSE IF Head(its).name = name
         THEN <<Head(its).status>> \o StatusesOf(Tail(its), name)
         ELSE StatusesOf(Tail(its), name)

\* the conversion part of the scripts is over, without an exception
IdleConvert ==
    /\ LABEL_INFO = LabelInfoAtImport
    /\ IMAGE_FOLDER = ImageFolderAtImport
    /\ pc = "done"
    /\ coco = [images |-> <<>>, annotations |-> <<>>, categories |-> Categories]
    /\ ann_id = 1
    /\ responses = <<>>
    /\ error = "none"
    /\ label_data = <<>>
    /\ upload_coco = [images |-> <<>>, annotations |-> <<>>, categories |-> Categories]
    /\ tag_map = <<>>
    /\ uploads = <<>>
    /\ upload_error = "none"
    /\ coco_again = [images |-> <<>>, annotations |-> <<>>, categories |-> <<>>]
    /\ label_data_again = [value |-> <<>>, error |-> "none"]
    /\ prediction_url = <<>>

convert == <<pc, coco, ann_id, responses, error, label_data,
             upload_coco, tag_map, uploads, upload_error, settings, again,
             prediction_url>>

\* upload_and_train is about to call upload_to_custom_vision (line 321)
InitTrain ==
    /\ IdleConvert
    /\ tpc = "upload_to_custom_vision"
    /\ \E names \in SeqsUpTo(IterationNames, MaxIterations) :
          iterations = [k \in 1..Len(names) |-> Trained(names[k])]
    /\ iteration_name = <<>>
    /\ timeout = 0
    /\ start_time = 0
    /\ now = 0
    /\ wait_result = "pending"
    /\ seen = <<>>
    /\ log = <<>>
    /\ IdleOthers

\* line 321
UploadToCustomVision ==
    /\ tpc = "upload_to_custom_vision"
    /\ log' = Append(log, "upload_to_custom_vision")
    /\ tpc' = "get_next_iteration_name"
    /\ UNCHANGED <<iterations, iteration_name, timeout, start_time, now,
                   wait_result, seen, convert, others>>

\* line 324: the request of lines 56-58 is answered or raises
GetNextIterationName ==
    /\ tpc = "get_next_iteration_name"
    /\ log' = Append(log, "get_next_iteration_name")
    /\ \/ /\ iteration_name' = NextIterationName(iterations)
          /\ tpc' = "train_new_iteration"
       \/ /\ tpc' = "raised"
          /\ UNCHANGED iteration_name
    /\ UNCHANGED <<iterations, timeout, start_time, now, wait_result, seen,
                   convert, others>>

\* line 328: the service starts the training of a new iteration, or
\* refuses, which lines 202-209 only print
TrainNewIteration ==
    /\ tpc = "train_new_iteration"
    /\ log' = Append(log, "train_new_iteration")
    /\ \E ok \in BOOLEAN :
          iterations' = IF ok
                        THEN Append(iterations, [name |-> iteration_name,
                                                 status |-> "Training"])
                        ELSE iterations
    /\ tpc' = "wait_for_training_completion"
    /\ UNCHANGED <<iteration_name, timeout, start_time, now, wait_result, seen,
                   convert, others>>

\* line 331 and lines 230-231: the call, and the reading of the clock
WaitStart ==
    /\ tpc = "wait_for_training_completion"
    /\ log' = Append(log, "wait_for_training_completion")
    /\ timeout' \in Timeouts
    /\ start_time' = now
    /\ tpc' = "while"
    /\ UNCHANGED <<iterations, iteration_name, now, wait_result, seen, convert, others>>

\* lines 233-257: the timeout has not elapsed; the status request raises,
\* or it is answered and the loop over the iterations runs
Poll ==
    /\ tpc = "while"
    /\ now - start_time < timeout
    /\ \E d \in Latency : now' = now + d
    /\ \/ /\ tpc' = "raised"
          /\ UNCHANGED <<wait_result, seen>>
       \/ /\ seen' = StatusesOf(iterations, iteration_name)
          /\ LET r == ForLoop(iterations, 1, iteration_name)
             IN  IF r = "continue"
                 THEN /\ tpc' = "sleep"
                      /\ UNCHANGED wait_result
                 ELSE /\ tpc' = "returned"
                      /\ wait_result' = r
    /\ UNCHANGED <<iterations, iteration_name, timeout, start_time, log, convert, others>>

\* line 258
Sleep ==
    /\ tpc = "sleep"
    /\ now' = now + Interval
    /\ tpc' = "while"
    /\ UNCHANGED <<iterations, iteration_name, timeout, start_time,
                   wait_result, seen, log, convert, others>>

\* lines 233 and 260-261: the timeout has elapsed
WaitTimeout ==
    /\ tpc = "while"
    /\ ~(now - start_time < timeout)
    /\ wait_result' = "False"
    /\ tpc' = "returned"
    /\ UNCHANGED <<iterations, iteration_name, timeout, start_time, now, seen,
                   log, convert, others>>

\* lines 332-336 without the test of what the wait returned
PublishIteration_Unguarded ==
    /\ tpc = "returned"
    /\ \/ /\ log' = Append(log, "publish_iteration")
          /\ tpc' = "raised"
       \/ /\ StatusesOf(iterations, iteration_name) # <<>>
          /\ log' = log \o <<"publish_iteration", "POST publish">>
          /\ tpc' = "finished"
    /\ UNCHANGED <<iterations, iteration_name, timeout, start_time, now,
                   wait_result, seen, convert, others>>

\* lines 332-336 and 269-302: publish_iteration raises when the resource id
\* is not set, when the request of the iterations raises or when the name is
\* not listed; else it sends the publish request
PublishIteration ==
    /\ tpc = "returned"
    /\ wait_result = "True"
    /\ \/ /\ log' = Append(log, "publish_iteration")
          /\ tpc' = "raised"
       \/ /\ StatusesOf(iterations, iteration_name) # <<>>
          /\ log' = log \o <<"publish_iteration", "POST publish">>
          /\ tpc' = "finished"
    /\ UNCHANGED <<iterations, iteration_name, timeout, start_time, now,
                   wait_result, seen, convert, others>>

\* lines 337-338
SkipPublish ==
    /\ tpc = "returned"
    /\ wait_result # "True"
    /\ tpc' = "finished"
    /\ UNCHANGED <<iterations, iteration_name, timeout, start_time, now,
                   wait_result, seen, log, convert, others>>

\* the service: a training ends
TrainingEnds ==
    /\ tpc \notin {"idle", "finished", "raised"}
    /\ \E k \in 1..Len(iterations) :
          /\ iterations[k].status = "Training"
          /\ \E status \in {"Completed", "Failed", "Canceled"} :
                iterations' = [iterations EXCEPT ![k].status = status]
    /\ UNCHANGED <<tpc, iteration_name, timeout, start_time, now,
                   wait_result, seen, log, convert, others>>

\* the statements of the script
Script ==
    \/ UploadToCustomVision
    \/ GetNextIterationName
    \/ TrainNewIteration
    \/ WaitStart
    \/ Poll
    \/ Sleep
    \/ WaitTimeout
    \/ PublishIteration
    \/ SkipPublish

NextTrain == Script \/ TrainingEnds

SpecTrain == InitTrain /\ [][NextTrain]_vars

\* the script is one sequential process that the interpreter keeps running:
\* a statement that can run does run, and time.sleep returns
FairSpecTrain == SpecTrain /\ WF_vars(Script)

(***************************************************************************)
(* get_latest_published_iteration_url                                      *)
(* (scripts/Customvision_Predict_To_Labelstudio.py, lines 73-110, called   *)
(* at line 318). The created timestamps are numbered in their order.       *)
(***************************************************************************)
\* Python's None, also standing for a key the iteration does not have
None == "<None>"

\* if x: of a str or None
Truthy(x) == x \notin {None, ""}

\* the iterations the service can list
PublishedOrNot ==
    { [name |-> <<"Iteration", " ", "1">>, publishName |-> p, created |-> c] :
        p \in {None, "", "model-a", "model-b"}, c \in 1..3 }

\* line 97
Published(its) == SelectSeq(its, LAMBDA it : Truthy(it.publishName))

\* line 101 without the sort
Latest_Unsorted(published, k, best) == published[1]

\* line 101: sorted(..., reverse=True)[0] is the first of the iterations
\* with the greatest created, the sort being stable; a scan from the k-th
RECURSIVE Latest(_, _, _)
Latest(published, k, best) ==
    IF k > Len(published) THEN best
    ELSE IF published[k].created > best.created
         THEN Latest(published, k + 1, published[k])
         ELSE Latest(published, k + 1, best)

\* line 110
PredictionUrl(project_id, iteration_name_) ==
    <<"AZURE_PREDICTION_ENDPOINT", "customvision/v3.0/Prediction/", project_id,
      "/detect/iterations/", iteration_name_, "/image">>

\* predict_to_labelstudio is about to call get_latest_published_iteration_url
InitUrl ==
    /\ LABEL_INFO = LabelInfoAtImport
    /\ IMAGE_FOLDER = ImageFolderAtImport
    /\ pc = "get_latest_published_iteration_url"
    /\ coco = [images |-> <<>>, annotations |-> <<>>, categories |-> <<>>]
    /\ ann_id = 1
    /\ responses = <<>>
    /\ error = "none"
    /\ label_data = <<>>
    /\ upload_coco = [images |-> <<>>, annotations |-> <<>>, categories |-> <<>>]
    /\ tag_map = <<>>
    /\ uploads = <<>>
    /\ upload_error = "none"
    /\ coco_again = [images |-> <<>>, annotations |-> <<>>, categories |-> <<>>]
    /\ label_data_again = [value |-> <<>>, error |-> "none"]
    /\ prediction_url = <<>>
    /\ tpc = "idle"
    /\ iterations \in SeqsUpTo(PublishedOrNot, MaxIterations)
    /\ iteration_name = <<>>
    /\ timeout = 0
    /\ start_time = 0
    /\ now = 0
    /\ wait_result = "pending"
    /\ seen = <<>>
    /\ log = <<>>
    /\ IdleOthers

\* lines 93-94: the request of the iterations raises
IterationsRequestRaises ==
    /\ pc = "get_latest_published_iteration_url"
    /\ error' = "HTTPError"
    /\ pc' = "raised"
    /\ UNCHANGED <<coco, ann_id, responses, label_data, upload_coco, tag_map,
                   uploads, upload_error, settings, again, prediction_url, train, others>>

\* lines 95-99: no iteration is published
NothingPublished ==
    /\ pc = "get_latest_published_iteration_url"
    /\ Published(iterations) = <<>>
    /\ error' = "RuntimeError"
    /\ pc' = "raised"
    /\ UNCHANGED <<coco, ann_id, responses, label_data, upload_coco, tag_map,
                   uploads, upload_error, settings, again, prediction_url, train, others>>

\* lines 101-110: the latest published iteration is chosen; the request of
\* the project name raises, or the URL is returned
LatestPublished ==
    /\ pc = "get_latest_published_iteration_url"
    /\ Published(iterations) # <<>>
    /\ LET published == Published(iterations)
           latest    == Latest(published, 2, published[1])
       IN  \/ /\ error' = "HTTPError"
              /\ pc' = "raised"
              /\ UNCHANGED prediction_url
           \/ /\ prediction_url' = PredictionUrl("AZURE_PREDICTION_PROJECT_ID",
                                                 latest.publishName)
              /\ pc' = "url_returned"
              /\ UNCHANGED error
    /\ UNCHANGED <<coco, ann_id, responses, label_data, upload_coco, tag_map,
                   uploads, upload_error, settings, again, train, others>>

NextUrl ==
    \/ IterationsRequestRaises
    \/ NothingPublished
    \/ LatestPublished

SpecUrl == InitUrl /\ [][NextUrl]_vars

(***************************************************************************)
(* upload_to_custom_vision and send_batch                                  *)
(* (scripts/Customvision_Upload_And_Train.py, lines 136-179).              *)
(* The files of the uploads dict are numbered in the order of its keys.    *)
(***************************************************************************)
\* entries of the uploads dict
MaxUploads == 102

\* line 154: the size of a full batch
BatchSize == 50

\* the files that can be missing from IMAGE_FOLDER
Suspects == {1, BatchSize, BatchSize + 1, 2 * BatchSize + 1}

\* lines 150-152: the item of the batch made from an entry of uploads
BatchItem(entry) ==
    [name |-> entry.file_name, contents |-> entry.file_name,
     regions |-> entry.regions]

\* line 154 with the test for more than 50
IsFull_Over(b) == Len(b) > BatchSize

\* line 154
IsFull(b) == Len(b) = BatchSize

\* lines 161-179: what send_batch returns
SendBatch(b, count) == count + Len(b)

\* what the upload actions leave alone
besideUpload ==
    <<convert, iterations, iteration_name, timeout, start_time, now,
      wait_result, seen, log, studio, output_file, crawl>>

\* upload_and_train is about to call upload_to_custom_vision (line 321)
\* with a dict of n entries
InitUpload ==
    /\ LABEL_INFO = LabelInfoAtImport
    /\ IMAGE_FOLDER = ImageFolderAtImport
    /\ pc = "done"
    /\ coco = [images |-> <<>>, annotations |-> <<>>, categories |-> Categories]
    /\ ann_id = 1
    /\ responses = <<>>
    /\ error = "none"
    /\ label_data = <<>>
    /\ upload_coco = [images |-> <<>>, annotations |-> <<>>, categories |-> Categories]
    /\ tag_map = <<>>
    /\ \E n \in 0..MaxUploads :
          uploads = [k \in 1..n |-> [file_name |-> k, regions |-> <<>>]]
    /\ upload_error = "none"
    /\ coco_again = [images |-> <<>>, annotations |-> <<>>, categories |-> <<>>]
    /\ label_data_again = [value |-> <<>>, error |-> "none"]
    /\ prediction_url = <<>>
    /\ tpc = "upload_to_custom_vision"
    /\ iterations = <<>>
    /\ iteration_name = <<>>
    /\ timeout = 0
    /\ start_time = 0
    /\ now = 0
    /\ wait_result = "pending"
    /\ seen = <<>>
    /\ log = <<>>
    /\ item = 1
    /\ batch = <<>>
    /\ sent = 0
    /\ posted = <<>>
    /\ absent \in SUBSET Suspects
    /\ IdleStudio
    /\ output_file = Unwritten
    /\ IdleCrawl

\* lines 145-149: the file of the entry does not exist
MissingFile ==
    /\ tpc = "upload_to_custom_vision"
    /\ item <= Len(uploads)
    /\ uploads[item].file_name \in absent
    /\ item' = item + 1
    /\ UNCHANGED <<tpc, batch, sent, posted, absent, besideUpload>>

\* lines 145-154: the entry joins the batch, which is not full
AppendToBatch ==
    /\ tpc = "upload_to_custom_vision"
    /\ item <= Len(uploads)
    /\ uploads[item].file_name \notin absent
    /\ ~IsFull(Append(batch, BatchItem(uploads[item])))
    /\ batch' = Append(batch, BatchItem(uploads[item]))
    /\ item' = item + 1
    /\ UNCHANGED <<tpc, sent, posted, absent, besideUpload>>

\* lines 145-156: the entry fills the batch, which is sent
SendFullBatch ==
    /\ tpc = "upload_to_custom_vision"
    /\ item <= Len(uploads)
    /\ uploads[item].file_name \notin absent
    /\ LET full == Append(batch, BatchItem(uploads[item]))
       IN  /\ IsFull(full)
           /\ posted' = Append(posted, full)
           /\ sent' = SendBatch(full, sent)
    /\ batch' = <<>>
    /\ item' = item + 1
    /\ UNCHANGED <<tpc, absent, besideUpload>>

\* line 173: requests.post raises (no connection, or no answer in 120 s),
\* the request having reached the service or not
SendFullBatchRaises ==
    /\ tpc = "upload_to_custom_vision"
    /\ item <= Len(uploads)
    /\ uploads[item].file_name \notin absent
    /\ LET full == Append(batch, BatchItem(uploads[item]))
       IN  /\ IsFull(full)
           /\ batch' = full
           /\ posted' \in {posted, Append(posted, full)}
    /\ tpc' = "raised"
    /\ UNCHANGED <<item, sent, absent, besideUpload>>

\* lines 157-158: the rest is sent, and upload_to_custom_vision returns
SendLastBatch ==
    /\ tpc = "upload_to_custom_vision"
    /\ item > Len(uploads)
    /\ batch # <<>>
    /\ posted' = Append(posted, batch)
    /\ tpc' = "get_next_iteration_name"
    /\ UNCHANGED <<item, batch, sent, absent, besideUpload>>

\* lines 157-158 and 173: the request of the rest raises
SendLastBatchRaises ==
    /\ tpc = "upload_to_custom_vision"
    /\ item > Len(uploads)
    /\ batch # <<>>
    /\ posted' \in {posted, Append(posted, batch)}
    /\ tpc' = "raised"
    /\ UNCHANGED <<item, batch, sent, absent, besideUpload>>

\* line 157: nothing is left to send
NothingLeft ==
    /\ tpc = "upload_to_custom_vision"
    /\ item > Len(uploads)
    /\ batch = <<>>
    /\ tpc' = "get_next_iteration_name"
    /\ UNCHANGED <<item, batch, sent, posted, absent, besideUpload>>

NextUpload ==
    \/ MissingFile
    \/ AppendToBatch
    \/ SendFullBatch
    \/ SendFullBatchRaises
    \/ SendLastBatch
    \/ SendLastBatchRaises
    \/ NothingLeft

SpecUpload == InitUpload /\ [][NextUpload]_vars

(***************************************************************************)
(* run_label_studio and stop_label_studio                                  *)
(* (scripts/Customvision_Predict_To_Labelstudio.py, lines 257-301).        *)
(* Each call of run_label_studio is made by a run of the script; the file  *)
(* labelstudio.pid is what one run leaves to the next.                     *)
(***************************************************************************)
\* calls of run_label_studio
MaxRuns == 3

\* the pids the system gives to new processes
Pids == 1..MaxRuns

\* what the script and the other groups leave alone
besideStudio == <<convert, train, upload, output_file, crawl>>

\* lines 267-273: what os.kill does to a pid
KillOutcomes(p, running) ==
    IF p \in running THEN {"killed", "Exception"} ELSE {"ProcessLookupError"}

\* lines 267-275 with os.remove at the end of the try block
AfterKill_RemoveInTry(outcome, content) ==
    IF outcome = "killed" THEN NoFile ELSE content

\* lines 274-275: finally, the file is removed
AfterKill(outcome, content) == NoFile

InitStudio ==
    /\ IdleConvert
    /\ IdleTrain
    /\ IdleUpload
    /\ lpc = "ready"
    /\ pid_file = NoFile
    /\ pid = NoFile
    /\ process = NoFile
    /\ alive = {}
    /\ started = <<>>
    /\ kills = <<>>
    /\ runs = 0
    /\ recorded = NoFile
    /\ output_file = Unwritten
    /\ IdleCrawl

\* line 285: run_label_studio is entered and calls stop_label_studio
EnterRunLabelStudio ==
    /\ lpc \in {"ready", "returned", "raised"}
    /\ runs < MaxRuns
    /\ runs' = runs + 1
    /\ recorded' = pid_file
    /\ pid' = NoFile
    /\ process' = NoFile
    /\ lpc' = "stop_label_studio"
    /\ UNCHANGED <<pid_file, alive, started, kills>>

\* line 341, in a run of the script whose first part is not looked at
RunLabelStudio ==
    /\ EnterRunLabelStudio
    /\ UNCHANGED besideStudio

\* lines 261-262: no PID file
StopWithoutFile ==
    /\ lpc = "stop_label_studio"
    /\ pid_file = NoFile
    /\ lpc' = "Popen"
    /\ UNCHANGED <<pid_file, pid, process, alive, started, kills, runs,
                   recorded, besideStudio>>

\* lines 264-265: the pid is read
StopReadsPid ==
    /\ lpc = "stop_label_studio"
    /\ pid_file # NoFile
    /\ pid' = pid_file
    /\ lpc' = "os.kill"
    /\ UNCHANGED <<pid_file, process, alive, started, kills, runs, recorded,
                   besideStudio>>

\* lines 267-275: the signal is sent, or os.kill raises; the file is removed
StopKills ==
    /\ lpc = "os.kill"
    /\ \E outcome \in KillOutcomes(pid, alive) :
          /\ kills' = Append(kills, [pid |-> pid, run |-> runs,
                                     outcome |-> outcome])
          /\ alive' = IF outcome = "killed" THEN alive \ {pid} ELSE alive
          /\ pid_file' = AfterKill(outcome, pid_file)
    /\ lpc' = "Popen"
    /\ UNCHANGED <<pid, process, started, runs, recorded, besideStudio>>

\* lines 291-296: the process is started with a pid no running process has
PopenStarts ==
    /\ lpc = "Popen"
    /\ \E p \in Pids \ alive :
          /\ process' = p
          /\ started' = Append(started, p)
          /\ alive' = alive \cup {p}
    /\ lpc' = "write"
    /\ UNCHANGED <<pid_file, pid, kills, runs, recorded, besideStudio>>

\* lines 291-296: Popen raises (label-studio is not installed)
PopenRaises ==
    /\ lpc = "Popen"
    /\ lpc' = "raised"
    /\ UNCHANGED <<pid_file, pid, process, alive, started, kills, runs,
                   recorded, besideStudio>>

\* lines 298-301: the pid is written, and run_label_studio returns
WritePid ==
    /\ lpc = "write"
    /\ pid_file' = process
    /\ lpc' = "returned"
    /\ UNCHANGED <<pid, process, alive, started, kills, runs, recorded,
                   besideStudio>>

\* a Label Studio process ends by itself between two runs of the script
ProcessExits ==
    /\ lpc \in {"returned", "raised"}
    /\ \E p \in alive : alive' = alive \ {p}
    /\ UNCHANGED <<lpc, pid_file, pid, process, started, kills, runs,
                   recorded, besideStudio>>

NextStudio ==
    \/ RunLabelStudio
    \/ StopWithoutFile
    \/ StopReadsPid
    \/ StopKills
    \/ PopenStarts
    \/ PopenRaises
    \/ WritePid
    \/ ProcessExits

SpecStudio == InitStudio /\ [][NextStudio]_vars

(***************************************************************************)
(* One run of the predict script                                           *)
(* (scripts/Customvision_Predict_To_Labelstudio.py, lines 307-341).        *)
(***************************************************************************)
\* the project holds no iteration, an unpublished one or a published one
Projects ==
    { <<>>,
      <<[name |-> <<"Iteration", " ", "1">>, publishName |-> None, created |-> 1]>>,
      <<[name |-> <<"Iteration", " ", "1">>, publishName |-> "model-a", created |-> 1]>> }

\* the script starts; an earlier run may have left its PID file
InitPredict ==
    /\ LABEL_INFO = LabelInfoAtImport
    /\ IMAGE_FOLDER = ImageFolderAtImport
    /\ pc = "os.listdir"
    /\ coco = [images |-> <<>>, annotations |-> <<>>, categories |-> <<>>]
    /\ ann_id = 1
    /\ responses = <<>>
    /\ error = "none"
    /\ label_data = <<>>
    /\ upload_coco = [images |-> <<>>, annotations |-> <<>>, categories |-> <<>>]
    /\ tag_map = <<>>
    /\ uploads = <<>>
    /\ upload_error = "none"
    /\ coco_again = [images |-> <<>>, annotations |-> <<>>, categories |-> <<>>]
    /\ label_data_again = [value |-> <<>>, error |-> "none"]
    /\ prediction_url = <<>>
    /\ tpc = "idle"
    /\ iterations \in Projects
    /\ iteration_name = <<>>
    /\ timeout = 0
    /\ start_time = 0
    /\ now = 0
    /\ wait_result = "pending"
    /\ seen = <<>>
    /\ log = <<>>
    /\ IdleUpload
    /\ lpc = "ready"
    /\ pid_file \in {NoFile, 1}
    /\ alive = IF pid_file = NoFile THEN {} ELSE {pid_file}
    /\ pid = NoFile
    /\ process = NoFile
    /\ started = <<>>
    /\ kills = <<>>
    /\ runs = 0
    /\ recorded = NoFile
    /\ output_file = Unwritten
    /\ IdleCrawl

\* what the steps of predict_to_labelstudio leave alone, pc, error and their
\* own results apart
besidePredict ==
    <<upload_coco, tag_map, uploads, upload_error, settings, again, train,
      upload, studio, crawl>>

\* lines 309-315: the images of IMAGE_FOLDER are listed
ListImages ==
    /\ pc = "os.listdir"
    /\ pc' = "get_latest_published_iteration_url"
    /\ UNCHANGED <<coco, ann_id, responses, error, label_data, prediction_url,
                   output_file, besidePredict>>

\* line 311: IMAGE_FOLDER does not exist
ListImagesRaises ==
    /\ pc = "os.listdir"
    /\ error' = "FileNotFoundError"
    /\ pc' = "raised"
    /\ UNCHANGED <<coco, ann_id, responses, label_data, prediction_url,
                   output_file, besidePredict>>

\* line 325 and lines 154-159: convert_to_coco is called
CallConvertToCoco ==
    /\ pc = "url_returned"
    /\ coco' = [images |-> <<>>, annotations |-> <<>>, categories |-> Categories]
    /\ ann_id' = 1
    /\ pc' = "convert_to_coco"
    /\ UNCHANGED <<responses, error, label_data, prediction_url, output_file,
                   besidePredict>>

\* lines 162-170 and 136: the image is registered, and predict_image raises
PredictRaises ==
    /\ pc = "convert_to_coco"
    /\ Len(coco.images) < MaxImages
    /\ \E file \in ImageFolder :
          /\ \A k \in 1..Len(coco.images) : coco.images[k].file_name # file.file_name
          /\ coco' = [coco EXCEPT !.images =
                        Append(@, [id |-> Len(coco.images) + 1,
                                   file_name |-> file.file_name,
                                   width |-> file.width, height |-> file.height])]
    /\ error' = "HTTPError"
    /\ pc' = "raised"
    /\ UNCHANGED <<ann_id, responses, label_data, prediction_url, output_file,
                   besidePredict>>

\* lines 331-334 with the exception of convert_to_labelstudio swallowed
WriteJson_AfterException ==
    /\ pc = "json_load"
    /\ output_file' = [written |-> TRUE, content |-> label_data]
    /\ pc' = "run_label_studio"
    /\ UNCHANGED <<coco, ann_id, responses, error, label_data, prediction_url,
                   besidePredict>>

\* lines 331-334: convert_to_labelstudio returned, and its result is dumped
WriteJson ==
    /\ pc = "json_load"
    /\ error = "none"
    /\ output_file' = [written |-> TRUE, content |-> label_data]
    /\ pc' = "run_label_studio"
    /\ UNCHANGED <<coco, ann_id, responses, error, label_data, prediction_url,
                   besidePredict>>

\* lines 338-341: predict_to_labelstudio returned, run_label_studio is called
MainRunsLabelStudio ==
    /\ pc = "run_label_studio"
    /\ pc' = "exit"
    /\ EnterRunLabelStudio
    /\ UNCHANGED <<coco, ann_id, responses, error, label_data, prediction_url,
                   output_file, upload_coco, tag_map, uploads, upload_error,
                   settings, again, train, upload, crawl>>

NextPredict ==
    \/ ListImages
    \/ ListImagesRaises
    \/ IterationsRequestRaises
    \/ NothingPublished
    \/ LatestPublished
    \/ CallConvertToCoco
    \/ CocoImage
    \/ PredictRaises
    \/ CocoReturn
    \/ ConvertToLabelstudio
    \/ WriteJson
    \/ MainRunsLabelStudio
    \/ StopWithoutFile
    \/ StopReadsPid
    \/ StopKills
    \/ PopenStarts
    \/ PopenRaises
    \/ WritePid

SpecPredict == InitPredict /\ [][NextPredict]_vars

(***************************************************************************)
(* crawl_youtube_trending (scripts/Youtube_Crawler.py, lines 73-181).      *)
(***************************************************************************)
\* video elements the trending page shows
MaxVideos == 3

\* the link of an element: none with watch?v= in it, or the one of a video
Links == {"none", "v1", "v2"}

\* what the crawler leaves alone
besideCrawl == <<convert, train, upload, studio, output_file>>

\* lines 15-19: a file of the folder has the video id in its name
is_duplicate_image(video_id, save_dir) == video_id \in save_dir

\* lines 164-174 with the folder returned whatever was collected
ReturnValue_Always(rows) == "image_folder"

\* lines 164-174: the value of the return statement
ReturnValue(rows) == IF rows # <<>> THEN "image_folder" ELSE "None"

\* lines 78-96: makedirs made the folder, or found it (exist_ok) with a file
InitCrawl ==
    /\ IdleConvert
    /\ IdleTrain
    /\ IdleUpload
    /\ IdleStudio
    /\ output_file = Unwritten
    /\ cpc = "webdriver.Chrome"
    /\ driver = "none"
    /\ page = <<>>
    /\ thumbnails \in {{}, {"v1"}}
    /\ video = 1
    /\ video_data = <<>>
    /\ downloaded = 0
    /\ csv_written = FALSE
    /\ crawl_result = "pending"
    /\ quit_calls = 0
    /\ printed = <<>>

\* lines 98-99: the driver is created
CreateDriver ==
    /\ cpc = "webdriver.Chrome"
    /\ driver' = "running"
    /\ cpc' = "driver.get"
    /\ UNCHANGED <<page, thumbnails, video, video_data, downloaded, csv_written,
                   crawl_result, quit_calls, printed, besideCrawl>>

\* line 98: webdriver.Chrome raises, outside the try block
CreateDriverRaises ==
    /\ cpc = "webdriver.Chrome"
    /\ cpc' = "raised"
    /\ UNCHANGED <<driver, page, thumbnails, video, video_data,
                   downloaded, csv_written, crawl_result, quit_calls,
                   printed, besideCrawl>>

\* lines 102-125: the page is loaded and scrolled, the elements are found
LoadPage ==
    /\ cpc = "driver.get"
    /\ \E n \in 0..MaxVideos : page' \in [1..n -> Links]
    /\ cpc' = "for"
    /\ UNCHANGED <<driver, thumbnails, video, video_data, downloaded, csv_written,
                   crawl_result, quit_calls, printed, besideCrawl>>

\* lines 102-122: the driver raises (no element within 20 s, no browser)
LoadPageRaises ==
    /\ cpc = "driver.get"
    /\ cpc' = "except"
    /\ UNCHANGED <<driver, page, thumbnails, video, video_data,
                   downloaded, csv_written, crawl_result, quit_calls,
                   printed, besideCrawl>>

\* lines 126-135: the element has no watch link
VideoWithoutLink ==
    /\ cpc = "for"
    /\ video <= Len(page)
    /\ page[video] = "none"
    /\ video' = video + 1
    /\ UNCHANGED <<cpc, driver, page, thumbnails, video_data, downloaded,
                   csv_written, crawl_result, quit_calls, printed, besideCrawl>>

\* lines 137-142: the folder has a file of this video already
VideoDuplicate ==
    /\ cpc = "for"
    /\ video <= Len(page)
    /\ page[video] # "none"
    /\ is_duplicate_image(page[video], thumbnails)
    /\ video' = video + 1
    /\ printed' = Append(printed, "duplicate")
    /\ UNCHANGED <<cpc, driver, page, thumbnails, video_data, downloaded,
                   csv_written, crawl_result, quit_calls, besideCrawl>>

\* lines 53-70, 144-151: the download is not verified; a file it began
\* to write stays in the folder
VideoNotVerified ==
    /\ cpc = "for"
    /\ video <= Len(page)
    /\ page[video] # "none"
    /\ ~is_duplicate_image(page[video], thumbnails)
    /\ thumbnails' \in {thumbnails, thumbnails \cup {page[video]}}
    /\ video' = video + 1
    /\ printed' = Append(printed, "failed")
    /\ UNCHANGED <<cpc, driver, page, video_data, downloaded, csv_written,
                   crawl_result, quit_calls, besideCrawl>>

\* lines 127-162: the element or requests.head raises, the loop goes on
VideoRaises ==
    /\ cpc = "for"
    /\ video <= Len(page)
    /\ video' = video + 1
    /\ printed' = Append(printed, "error")
    /\ UNCHANGED <<cpc, driver, page, thumbnails, video_data, downloaded,
                   csv_written, crawl_result, quit_calls, besideCrawl>>

\* lines 144-159: the thumbnail is downloaded and verified, the row is added
VideoDownloaded ==
    /\ cpc = "for"
    /\ video <= Len(page)
    /\ page[video] # "none"
    /\ ~is_duplicate_image(page[video], thumbnails)
    /\ thumbnails' = thumbnails \cup {page[video]}
    /\ downloaded' = downloaded + 1
    /\ video_data' = Append(video_data, [rank |-> video, link |-> page[video]])
    /\ video' = video + 1
    /\ printed' = Append(printed, "saved")
    /\ UNCHANGED <<cpc, driver, page, csv_written, crawl_result, quit_calls,
                   besideCrawl>>

\* lines 164-171: rows were collected, the rankings file is written
SaveCsv ==
    /\ cpc = "for"
    /\ video > Len(page)
    /\ video_data # <<>>
    /\ csv_written' = TRUE
    /\ crawl_result' = ReturnValue(video_data)
    /\ cpc' = "finally"
    /\ UNCHANGED <<driver, page, thumbnails, video, video_data, downloaded,
                   quit_calls, printed, besideCrawl>>

\* lines 165-170: pandas raises while it writes the rankings file
SaveCsvRaises ==
    /\ cpc = "for"
    /\ video > Len(page)
    /\ video_data # <<>>
    /\ cpc' = "except"
    /\ UNCHANGED <<driver, page, thumbnails, video, video_data,
                   downloaded, csv_written, crawl_result, quit_calls,
                   printed, besideCrawl>>

\* lines 164, 172-174: no row was collected
NoData ==
    /\ cpc = "for"
    /\ video > Len(page)
    /\ video_data = <<>>
    /\ crawl_result' = ReturnValue(video_data)
    /\ cpc' = "finally"
    /\ UNCHANGED <<driver, page, thumbnails, video, video_data, downloaded,
                   csv_written, quit_calls, printed, besideCrawl>>

\* lines 176-178: the exception is caught
Except ==
    /\ cpc = "except"
    /\ crawl_result' = "None"
    /\ cpc' = "finally"
    /\ UNCHANGED <<driver, page, thumbnails, video, video_data, downloaded,
                   csv_written, quit_calls, printed, besideCrawl>>

\* lines 179-181: driver.quit is called, and the function returns, or
\* raises what driver.quit raised
Finally ==
    /\ cpc = "finally"
    /\ driver' = "quit"
    /\ quit_calls' = quit_calls + 1
    /\ \/ cpc' = "returned" /\ UNCHANGED crawl_result
       \/ cpc' = "raised" /\ crawl_result' = "pending"
    /\ UNCHANGED <<page, thumbnails, video, video_data, downloaded, csv_written,
                   printed, besideCrawl>>

NextCrawl ==
    \/ CreateDriver
    \/ CreateDriverRaises
    \/ LoadPage
    \/ LoadPageRaises
    \/ VideoWithoutLink
    \/ VideoDuplicate
    \/ VideoNotVerified
    \/ VideoRaises
    \/ VideoDownloaded
    \/ SaveCsv
    \/ SaveCsvRaises
    \/ NoData
    \/ Except
    \/ Finally

SpecCrawl == InitCrawl /\ [][NextCrawl]_vars

(***************************************************************************)
(* C1: a prediction produces an annotation if and only if its tagName is a *)
(* key of LABEL_INFO and its probability is greater than or equal to the   *)
(* threshold of that tag: the annotations of every image are, in order,    *)
(* those of exactly the predictions that satisfy the keep predicate, one   *)
(* at exactly the threshold included.                                      *)
(***************************************************************************)
C1_KeepIffRegisteredAndAtLeastThreshold ==
    \A i \in Processed :
        LET as == AnnsOf(coco, i)
            ks == KeptOf(i)
        IN  /\ Len(as) = Len(ks)
            /\ \A j \in 1..Len(as) :
                  /\ as[j].score = ks[j].probability
                  /\ as[j].category_id = LABEL_INFO[ks[j].tagName].id

\* a prediction exactly at the threshold has its annotation, next to a
\* prediction below the threshold that has none
C1_Witness ==
    \E i \in Processed :
        /\ \E k \in 1..Len(responses[i]) :
              /\ Registered(responses[i][k])
              /\ responses[i][k].probability = LABEL_INFO[responses[i][k].tagName].threshold
        /\ \E k \in 1..Len(responses[i]) :
              /\ Registered(responses[i][k])
              /\ ~Ge(responses[i][k].probability, LABEL_INFO[responses[i][k].tagName].threshold)
        /\ Len(AnnsOf(coco, i)) = 1
        /\ AnnsOf(coco, i)[1].score = Rat(9, 10)

(***************************************************************************)
(* C2: a prediction whose label is not registered is dropped without any   *)
(* error and leaves no region in any output: no COCO annotation (every     *)
(* annotation has a registered category, and an image has at most as many  *)
(* annotations as registered predictions), no Label Studio result, no      *)
(* upload region; an annotation whose category has no tag is skipped       *)
(* likewise.  The only exception either script raises is the division by   *)
(* a zero dimension of an image that has an annotation.                    *)
(***************************************************************************)
C2_UnregisteredDroppedSilently ==
    /\ error \in {"none", "ZeroDivisionError"}
    /\ upload_error \in {"none", "ZeroDivisionError"}
    /\ error = "ZeroDivisionError" =>
          \E i \in Processed :
              /\ coco.images[i].width = 0 \/ coco.images[i].height = 0
              /\ KeptOf(i) # <<>>
    /\ upload_error = "ZeroDivisionError" =>
          \E i \in Processed :
              /\ coco.images[i].width = 0 \/ coco.images[i].height = 0
              /\ TaggedOf(i) # <<>>
    /\ \A i \in Processed :
          LET registered == SelectSeq(responses[i], Registered)
          IN  /\ Len(AnnsOf(coco, i)) <= Len(registered)
              /\ \A j \in 1..Len(AnnsOf(coco, i)) :
                    \E l \in DOMAIN LABEL_INFO :
                        AnnsOf(coco, i)[j].category_id = LABEL_INFO[l].id
              /\ TasksReturned =>
                    /\ Len(ResultsOf(i)) <= Len(registered)
                    /\ \A j \in 1..Len(ResultsOf(i)) :
                          ResultsOf(i)[j].value.rectanglelabels[1] \in DOMAIN LABEL_INFO
              /\ UploadsReturned =>
                    /\ Len(RegionsOf(i)) = Len(TaggedOf(i))
                    /\ Len(RegionsOf(i)) <= Len(registered)
                    /\ \A j \in 1..Len(RegionsOf(i)) :
                          \E l \in DOMAIN tag_map : RegionsOf(i)[j].tagId = tag_map[l]
    /\ UploadsReturned =>
          \A k \in 1..Len(uploads) :
              \E i \in Processed : uploads[k].file_name = coco.images[i].file_name

\* both scripts ran to the end without an error on a batch that held an
\* unregistered prediction and an annotation whose category has no tag
C2_Witness ==
    /\ UploadsReturned
    /\ error = "none"
    /\ \E i \in Processed :
          /\ \E k \in 1..Len(responses[i]) : ~Registered(responses[i][k])
          /\ \E k \in 1..Len(upload_coco.annotations) :
                /\ upload_coco.annotations[k].image_id = i
                /\ CategoryName(upload_coco, upload_coco.annotations[k].category_id)
                       \notin DOMAIN tag_map
          /\ Len(RegionsOf(i)) = 1
          /\ Len(ResultsOf(i)) = 2

(***************************************************************************)
(* C3: for every kept prediction with fractional box (left, top,           *)
(* width_frac, height_frac) on an image of size (width, height) the bbox   *)
(* of the annotation is [left*width, top*height, width_frac*width,         *)
(* height_frac*height]; the box (0.1, 0.2, 0.3, 0.4) on a 1000x500 image   *)
(* gives (100, 100, 300, 200).                                             *)
(***************************************************************************)
C3_BboxIsScaledBox ==
    \A i \in Processed :
        \A j \in 1..Len(AnnsOf(coco, i)) :
            LET a   == AnnsOf(coco, i)[j]
                b   == KeptOf(i)[j].boundingBox
                img == coco.images[i]
            IN  /\ Len(a.bbox) = 4
                /\ IsProduct(a.bbox[1], b.left, img.width)
                /\ IsProduct(a.bbox[2], b.top, img.height)
                /\ IsProduct(a.bbox[3], b.width, img.width)
                /\ IsProduct(a.bbox[4], b.height, img.height)
                /\ (b = ExampleBox /\ img.width = 1000 /\ img.height = 500) =>
                      a.bbox = << [n |-> 100, d |-> 1], [n |-> 100, d |-> 1],
                                  [n |-> 300, d |-> 1], [n |-> 200, d |-> 1] >>

\* the worked example: the box (0.1, 0.2, 0.3, 0.4) kept on a 1000x500 image
C3_Witness ==
    \E i \in Processed :
        /\ coco.images[i].width = 1000 /\ coco.images[i].height = 500
        /\ \E j \in 1..Len(AnnsOf(coco, i)) :
              /\ KeptOf(i)[j].boundingBox = ExampleBox
              /\ AnnsOf(coco, i)[j].bbox[4] = [n |-> 200, d |-> 1]

IsPercentOf(v, x, dim) ==
    LET e == Rat(x.n * 100, x.d * dim)
    IN  /\ (100 * v.n) % v.d = 0
        /\ 200 * Abs(v.n * e.d - e.n * v.d) <= v.d * e.d

C5_ValueIsRoundedPercentage ==
    TasksReturned =>
        \A i \in Processed :
            LET rs  == ResultsOf(i)
                as  == AnnsOf(coco, i)
                img == coco.images[i]
            IN  /\ Len(rs) = Len(as)
                /\ \A j \in 1..Len(rs) :
                      /\ IsPercentOf(rs[j].value.x, as[j].bbox[1], img.width)
                      /\ IsPercentOf(rs[j].value.y, as[j].bbox[2], img.height)
                      /\ IsPercentOf(rs[j].value.width, as[j].bbox[3], img.width)
                      /\ IsPercentOf(rs[j].value.height, as[j].bbox[4], img.height)
                      /\ (/\ as[j].bbox = << [n |-> 100, d |-> 1], [n |-> 100, d |-> 1],
                                             [n |-> 300, d |-> 1], [n |-> 200, d |-> 1] >>
                          /\ img.width = 1000 /\ img.height = 500)
                         => /\ rs[j].value.x = [n |-> 10, d |-> 1]
                            /\ rs[j].value.y = [n |-> 20, d |-> 1]
                            /\ rs[j].value.width = [n |-> 30, d |-> 1]
                            /\ rs[j].value.height = [n |-> 40, d |-> 1]

\* the worked example next to a result whose coordinates had to be rounded:
\* 200/3 % became 66.67 and the tie 3.125 % became 3.12
C5_Witness ==
    /\ TasksReturned
    /\ \E i \in Processed : \E j \in 1..Len(ResultsOf(i)) :
          /\ coco.images[i].width = 1000
          /\ ResultsOf(i)[j].value.x = [n |-> 10, d |-> 1]
          /\ ResultsOf(i)[j].value.height = [n |-> 40, d |-> 1]
    /\ \E i \in Processed : \E j \in 1..Len(ResultsOf(i)) :
          /\ ResultsOf(i)[j].value.height = [n |-> 6667, d |-> 100]
          /\ ResultsOf(i)[j].value.y = [n |-> 78, d |-> 25]

(***************************************************************************)
(* C6: whenever every component of the detector's fractional box lies in   *)
(* [0, 1], each of the four percentages that convert_to_coco followed by   *)
(* convert_to_labelstudio emits for it lies in [0, 100].                   *)
(***************************************************************************)
C6_PercentagesWithinHundred ==
    TasksReturned =>
        \A i \in Processed :
            \A j \in 1..Len(ResultsOf(i)) :
                (j <= Len(KeptOf(i)) /\ InUnitSquare(KeptOf(i)[j].boundingBox))
                => LET v == ResultsOf(i)[j].value
                   IN  /\ Within(v.x, 0, 100) /\ Within(v.y, 0, 100)
                       /\ Within(v.width, 0, 100) /\ Within(v.height, 0, 100)

\* a box of the unit square gives percentages within [0, 100], while in
\* the same batch a box that leaves the unit square gives one above 100
C6_Witness ==
    /\ TasksReturned
    /\ \E i \in Processed : \E j \in 1..Len(ResultsOf(i)) :
          /\ InUnitSquare(KeptOf(i)[j].boundingBox)
          /\ ResultsOf(i)[j].value.x = [n |-> 10, d |-> 1]
          /\ ResultsOf(i)[j].value.width = [n |-> 30, d |-> 1]
    /\ \E i \in Processed : \E j \in 1..Len(ResultsOf(i)) :
          /\ ~InUnitSquare(KeptOf(i)[j].boundingBox)
          /\ ~Within(ResultsOf(i)[j].value.width, 0, 100)

(***************************************************************************)
(* C7: for every annotation whose category name is in tag_map,             *)
(* convert_coco_to_azure_uploads emits exactly one region {tagId:          *)
(* tag_map[category name], left: x/W, top: y/H, width: w/W, height: h/H},  *)
(* with no multiplication by 100 and no rounding.                          *)
(***************************************************************************)
\* v is x / k
IsQuotient(v, x, k) == v.n * x.d * k = x.n * v.d

C7_RegionIsUnscaledQuotient ==
    UploadsReturned =>
        \A i \in Processed :
            LET ta  == TaggedOf(i)
                rg  == RegionsOf(i)
                img == upload_coco.images[i]
            IN  /\ Len(rg) = Len(ta)
                /\ Cardinality({ k \in 1..Len(uploads) :
                                   uploads[k].file_name = img.file_name }) <= 1
                /\ \A j \in 1..Len(rg) :
                      /\ rg[j].tagId = tag_map[CategoryName(upload_coco, ta[j].category_id)]
                      /\ IsQuotient(rg[j].left, ta[j].bbox[1], img.width)
                      /\ IsQuotient(rg[j].top, ta[j].bbox[2], img.height)
                      /\ IsQuotient(rg[j].width, ta[j].bbox[3], img.width)
                      /\ IsQuotient(rg[j].height, ta[j].bbox[4], img.height)

\* a region whose coordinates a rounding to 2 digits would have changed
C7_Witness ==
    /\ UploadsReturned
    /\ \E i \in Processed : \E j \in 1..Len(RegionsOf(i)) :
          /\ RegionsOf(i)[j].tagId = "tag-2"
          /\ RegionsOf(i)[j].top = [n |-> 1, d |-> 32]
          /\ RegionsOf(i)[j].height = [n |-> 2, d |-> 3]

(***************************************************************************)
(* C8: round trip.  For a positive image size and a fractional box with    *)
(* components in [0, 1], the region that convert_coco_to_azure_uploads     *)
(* emits for the annotation that convert_to_coco made of the box has the   *)
(* left, top, width and height of the box.                                 *)
(***************************************************************************)
C8_RoundTrip ==
    UploadsReturned =>
        \A i \in Processed :
            \A j \in 1..Len(RegionsOf(i)) :
                (j <= Len(TaggedOf(i)) /\ TaggedOf(i)[j].id <= Len(KeptUpTo(Len(responses))))
                => LET b   == KeptUpTo(Len(responses))[TaggedOf(i)[j].id].boundingBox
                       img == upload_coco.images[i]
                       r   == RegionsOf(i)[j]
                   IN  (InUnitSquare(b) /\ img.width > 0 /\ img.height > 0)
                       => /\ r.left = b.left
                          /\ r.top = b.top
                          /\ r.width = b.width
                          /\ r.height = b.height

\* the box (0.1, 0.2, 0.3, 0.4) came back from a 640x360 image through a
\* result.json whose annotations are in another order
C8_Witness ==
    /\ UploadsReturned
    /\ upload_coco.annotations # coco.annotations
    /\ \E i \in Processed : \E j \in 1..Len(RegionsOf(i)) :
          /\ upload_coco.images[i].width = 640
          /\ TaggedOf(i)[j].bbox[4] = [n |-> 144, d |-> 1]
          /\ RegionsOf(i)[j].top = [n |-> 1, d |-> 5]
          /\ RegionsOf(i)[j].height = [n |-> 2, d |-> 5]

(***************************************************************************)
(* C9: grouping.  All annotations of one image end up in exactly one       *)
(* group (a Label Studio task keyed by the computed path, an upload entry  *)
(* keyed by file_name); the regions of a group are in the order of the     *)
(* annotations in the input, and the groups are in the order in which      *)
(* their keys first appear in the annotation sequence, not sorted.         *)
(***************************************************************************)
\* the file name of the image of the k-th annotation of c
FileOf(c, k) == ImageById(c, c.annotations[k].image_id).file_name

\* the positions in result.json of the annotations whose category has a tag
TaggedPositions ==
    { k \in 1..Len(upload_coco.annotations) :
        CategoryName(upload_coco, upload_coco.annotations[k].category_id)
            \in DOMAIN tag_map }

\* the elements of s at the positions of P, in the order of s
RECURSIVE Restrict(_, _, _)
Restrict(s, P, k) ==
    IF k > Len(s) THEN <<>>
    ELSE (IF k \in P THEN <<s[k]>> ELSE <<>>) \o Restrict(s, P, k + 1)

C9_GroupedInFirstSeenOrder ==
    /\ TasksReturned =>
          /\ [k \in 1..Len(label_data) |-> label_data[k].data.image]
                = FirstSeen([k \in 1..Len(coco.annotations) |-> FilePath(FileOf(coco, k))])
          /\ \A i \in Processed :
                ResultsOf(i)
                  = [j \in 1..Len(AnnsOf(coco, i)) |->
                       Result(AnnsOf(coco, i)[j], coco.images[i],
                              CategoryName(coco, AnnsOf(coco, i)[j].category_id))]
    /\ UploadsReturned =>
          /\ [k \in 1..Len(uploads) |-> uploads[k].file_name]
                = FirstSeen(Restrict([k \in 1..Len(upload_coco.annotations) |->
                                        FileOf(upload_coco, k)],
                                     TaggedPositions, 1))
          /\ \A i \in Processed :
                RegionsOf(i)
                  = [j \in 1..Len(TaggedOf(i)) |->
                       Region(TaggedOf(i)[j], upload_coco.images[i].width,
                              upload_coco.images[i].height,
                              tag_map[CategoryName(upload_coco, TaggedOf(i)[j].category_id)])]

\* result.json interleaves the annotations of two images (b.png, a.jpg,
\* b.png): two groups, b.png before a.jpg, the first with two regions
C9_Witness ==
    /\ UploadsReturned
    /\ TasksReturned
    /\ [k \in 1..Len(upload_coco.annotations) |-> FileOf(upload_coco, k)]
          = <<"b.png", "a.jpg", "b.png">>
    /\ [k \in 1..Len(uploads) |-> uploads[k].file_name] = <<"b.png", "a.jpg">>
    /\ Len(uploads[1].regions) = 2
    /\ uploads[1].regions[1] # uploads[1].regions[2]
    /\ Len(label_data) = 2
    /\ Len(label_data[1].annotations[1].result) = 2

(***************************************************************************)
(* C10: the Label Studio output holds one task entry per distinct image    *)
(* of the batch: an image for which no annotation survived the filter      *)
(* still has its own task entry, with an empty result list.                *)
(***************************************************************************)
C10_TaskPerImage ==
    TasksReturned =>
        /\ Len(label_data) = Len(coco.images)
        /\ \A i \in Processed :
              \E k \in 1..Len(label_data) :
                  label_data[k].data.image = FilePath(coco.images[i].file_name)

(***************************************************************************)
(* C11: for well-formed input (box components in [0, 1], left + width <= 1,*)
(* top + height <= 1, positive image size) every annotation that           *)
(* convert_to_coco produces satisfies 0 <= x, 0 <= y, x + w <= image width,*)
(* y + h <= image height and area = w * h.                                 *)
(***************************************************************************)
\* a + b <= k
SumAtMost(a, b, k) == a.n * b.d + b.n * a.d <= k * a.d * b.d

\* the fractional box and the image size are well formed
WellFormed(b, img) ==
    /\ InUnitSquare(b)
    /\ SumAtMost(b.left, b.width, 1)
    /\ SumAtMost(b.top, b.height, 1)
    /\ img.width > 0 /\ img.height > 0

C11_BboxInsideImage ==
    \A i \in Processed :
        \A j \in 1..Len(AnnsOf(coco, i)) :
            (j <= Len(KeptOf(i)) /\ WellFormed(KeptOf(i)[j].boundingBox, coco.images[i]))
            => LET a == AnnsOf(coco, i)[j]
               IN  /\ a.bbox[1].n >= 0
                   /\ a.bbox[2].n >= 0
                   /\ SumAtMost(a.bbox[1], a.bbox[3], coco.images[i].width)
                   /\ SumAtMost(a.bbox[2], a.bbox[4], coco.images[i].height)
                   /\ a.area.n * a.bbox[3].d * a.bbox[4].d
                         = a.bbox[3].n * a.bbox[4].n * a.area.d

\* a well-formed box on the 640x360 image: (64, 72, 192, 144), area 27648
C11_Witness ==
    \E i \in Processed : \E j \in 1..Len(AnnsOf(coco, i)) :
        /\ WellFormed(KeptOf(i)[j].boundingBox, coco.images[i])
        /\ coco.images[i].width = 640
        /\ AnnsOf(coco, i)[j].bbox[2] = [n |-> 72, d |-> 1]
        /\ AnnsOf(coco, i)[j].area = [n |-> 27648, d |-> 1]

(***************************************************************************)
(* C12: a malformed fractional box is passed through, neither clamped nor  *)
(* rejected: a prediction that passes the category filter and has a box    *)
(* component outside [0, 1] raises no error in convert_to_coco and has its *)
(* annotation, whose bbox holds the unclamped products (a component        *)
(* outside [0, 1] gives a pixel value outside the image).                  *)
(***************************************************************************)
\* the pixel value v of the fraction a on a dimension dim > 0 lies outside
\* [0, dim] exactly when a lies outside [0, 1]
Unclamped(v, a, dim) ==
    /\ IsProduct(v, a, dim)
    /\ dim > 0 => (Within(a, 0, 1) <=> Within(v, 0, dim))

C12_MalformedBoxPassedThrough ==
    /\ pc \in {"convert_to_coco", "convert_to_labelstudio"} => error = "none"
    /\ \A i \in Processed :
          \A j \in 1..Len(KeptOf(i)) :
              ~InUnitSquare(KeptOf(i)[j].boundingBox)
              => /\ j <= Len(AnnsOf(coco, i))
                 /\ LET a   == AnnsOf(coco, i)[j]
                        b   == KeptOf(i)[j].boundingBox
                        img == coco.images[i]
                    IN  /\ Unclamped(a.bbox[1], b.left, img.width)
                        /\ Unclamped(a.bbox[2], b.top, img.height)
                        /\ Unclamped(a.bbox[3], b.width, img.width)
                        /\ Unclamped(a.bbox[4], b.height, img.height)

\* the box (-0.25, 1/32, 1.25, 2/3) on the 1000x500 image has the
\* annotation with x = -250 and w = 1250, and convert_to_coco has returned
C12_Witness ==
    /\ pc = "convert_to_labelstudio"
    /\ error = "none"
    /\ \E i \in Processed : \E j \in 1..Len(AnnsOf(coco, i)) :
          /\ ~InUnitSquare(KeptOf(i)[j].boundingBox)
          /\ coco.images[i].width = 1000
          /\ AnnsOf(coco, i)[j].bbox[1] = [n |-> 0 - 250, d |-> 1]
          /\ AnnsOf(coco, i)[j].bbox[3] = [n |-> 1250, d |-> 1]

(***************************************************************************)
(* C13: the data.image key of every Label Studio task is the configured    *)
(* base path followed by the file name of the image, holds no backslash    *)
(* (each one replaced by a forward slash), and the annotations of one      *)
(* image all compute one key: an image has at most one task.               *)
(***************************************************************************)
\* key is "/data/local-files/?d=", the tokens of the folder with every
\* backslash turned into a slash, "/", and the file name
IsKeyOf(key, folder, file_name) ==
    /\ Len(key) = Len(folder) + 3
    /\ key[1] = "/data/local-files/?d="
    /\ \A k \in 1..Len(folder) :
          key[k + 1] = (IF folder[k] = "\\" THEN "/" ELSE folder[k])
    /\ key[Len(folder) + 2] = "/"
    /\ key[Len(folder) + 3] = file_name

C13_TaskKeyIsSlashedPath ==
    TasksReturned =>
        /\ \A k \in 1..Len(label_data) :
              LET key == label_data[k].data.image
              IN  /\ \A t \in 1..Len(key) : key[t] # "\\"
                  /\ \E i \in Processed :
                        IsKeyOf(key, IMAGE_FOLDER, coco.images[i].file_name)
        /\ \A i \in Processed :
              Cardinality({ k \in 1..Len(label_data) :
                  IsKeyOf(label_data[k].data.image, IMAGE_FOLDER,
                          coco.images[i].file_name) })
                = (IF AnnsOf(coco, i) = <<>> THEN 0 ELSE 1)

\* IMAGE_FOLDER holds backslashes, and an image with two annotations has
\* its one task, whose key holds slashes in their places
C13_Witness ==
    /\ TasksReturned
    /\ \E t \in 1..Len(IMAGE_FOLDER) : IMAGE_FOLDER[t] = "\\"
    /\ \E i \in Processed :
          /\ Len(AnnsOf(coco, i)) = 2
          /\ \E k \in 1..Len(label_data) :
                /\ IsKeyOf(label_data[k].data.image, IMAGE_FOLDER,
                           coco.images[i].file_name)
                /\ label_data[k].data.image[3] = "/"
                /\ Len(label_data[k].annotations[1].result) = 2

(***************************************************************************)
(* C15: the fixed literal fields are in every output record: every COCO    *)
(* annotation has iscrowd = 0, and every Label Studio result has           *)
(* image_rotation = 0, value.rotation = 0, from_name = "label",            *)
(* to_name = "image", type = "rectanglelabels" and a rectanglelabels list  *)
(* of exactly one label, the category name of its annotation.              *)
(***************************************************************************)
C15_FixedLiteralFields ==
    /\ \A k \in 1..Len(coco.annotations) : coco.annotations[k].iscrowd = 0
    /\ TasksReturned =>
          /\ \A k \in 1..Len(label_data) :
                /\ DOMAIN label_data[k] = {"data", "annotations"}
                /\ Len(label_data[k].annotations) = 1
          /\ \A i \in Processed :
                \A j \in 1..Len(ResultsOf(i)) :
                    LET r == ResultsOf(i)[j]
                    IN  /\ r.image_rotation = 0
                        /\ r.value.rotation = 0
                        /\ r.from_name = "label"
                        /\ r.to_name = "image"
                        /\ r.type = "rectanglelabels"
                        /\ j <= Len(KeptOf(i))
                        /\ r.value.rectanglelabels = <<KeptOf(i)[j].tagName>>
                        /\ r.original_width = coco.images[i].width
                        /\ r.original_height = coco.images[i].height

\* a task with the results of two annotations of different categories
C15_Witness ==
    /\ TasksReturned
    /\ \E i \in Processed :
          /\ Len(ResultsOf(i)) = 2
          /\ ResultsOf(i)[1].value.rectanglelabels = <<"person">>
          /\ ResultsOf(i)[2].value.rectanglelabels = <<"text">>
          /\ coco.annotations[1].iscrowd = 0

(***************************************************************************)
(* C16: every conversion stage is a pure function of its arguments: two    *)
(* calls with equal arguments give equal results whatever the values of    *)
(* the module globals LABEL_INFO and IMAGE_FOLDER are.                     *)
(***************************************************************************)
C16_ResultsIndependentOfGlobals ==
    pc = "called_twice" =>
        /\ coco_again = coco
        /\ label_data_again = [value |-> label_data, error |-> error]

(***************************************************************************)
(* C17: wait_for_training_completion always terminates; it returns True    *)
(* only after a poll that listed the named iteration as "Completed",       *)
(* returns False as soon as a poll lists it as "Failed" or "Canceled", and *)
(* returns False once the timeout has elapsed without either, also when    *)
(* the name is never listed.                                               *)
(***************************************************************************)
\* the last poll listed the name with one of the statuses
Listed(statuses) == \E k \in 1..Len(seen) : seen[k] \in statuses

TimeoutElapsed == now - start_time >= timeout

C17_WaitTerminatesWithVerdict ==
    /\ [](wait_result = "True" => Listed({"Completed"}))
    /\ []((seen # <<>> /\ \A k \in 1..Len(seen) : seen[k] \in {"Failed", "Canceled"})
            => (wait_result = "False" /\ tpc \notin {"while", "sleep"}))
    /\ [](wait_result = "False" => (Listed({"Failed", "Canceled"}) \/ TimeoutElapsed))
    /\ [][(tpc = "while" /\ TimeoutElapsed /\ tpc' # tpc)
            => (tpc' = "returned" /\ wait_result' = "False")]_vars
    /\ (tpc = "wait_for_training_completion")
          ~> (wait_result # "pending" \/ tpc = "raised")

\* the wait returned True on a poll made after at least one sleep
C17_Witness ==
    /\ wait_result = "True"
    /\ seen = <<"Completed">>
    /\ now - start_time >= Interval
    /\ ~TimeoutElapsed

(***************************************************************************)
(* C18: upload_and_train runs upload, name generation, training request,   *)
(* polling and publish in this order; a publish request is sent only after *)
(* the polling listed the iteration as "Completed", and none is sent when  *)
(* the polling ended with a failure, a cancellation or the timeout.        *)
(***************************************************************************)
StepOrder ==
    <<"upload_to_custom_vision", "get_next_iteration_name",
      "train_new_iteration", "wait_for_training_completion",
      "publish_iteration", "POST publish">>

Logged(entry) == \E k \in 1..Len(log) : log[k] = entry

C18_PublishOnlyAfterCompleted ==
    /\ Len(log) <= Len(StepOrder)
    /\ \A k \in 1..Len(log) : log[k] = StepOrder[k]
    /\ Logged("POST publish") =>
          /\ wait_result = "True"
          /\ \E k \in 1..Len(seen) : seen[k] = "Completed"
          /\ \E k \in 1..Len(iterations) :
                /\ iterations[k].name = iteration_name
                /\ iterations[k].status = "Completed"
    /\ wait_result = "False" =>
          (~Logged("publish_iteration") /\ ~Logged("POST publish"))

\* the whole sequence up to the publish request has run
C18_Witness ==
    /\ log = StepOrder
    /\ tpc = "finished"
    /\ seen = <<"Completed">>

(***************************************************************************)
(* C20, as stated: get_next_iteration_name returns "Iteration N+1" where N *)
(* is the largest integer parsed from the names that start with            *)
(* "Iteration", N = 0 when no integer is parsed.                           *)
(***************************************************************************)
\* the integers parsed from the names that start with "Iteration"
ParsedNumbers ==
    { IntOf(Strip(ReplaceIteration(iterations[k].name))).value :
        k \in { j \in 1..Len(iterations) :
                  /\ StartsWithIteration(iterations[j].name)
                  /\ IntOf(Strip(ReplaceIteration(iterations[j].name))).ok } }

Largest(S) == CHOOSE n \in S : \A m \in S : m <= n

C20_NextIsLargestParsedPlusOne ==
    tpc = "train_new_iteration" =>
        LET N == IF ParsedNumbers = {} THEN 0 ELSE Largest(ParsedNumbers)
        IN  iteration_name = <<"Iteration", " ">> \o Str(N + 1)

(***************************************************************************)
(* C20, amended: get_next_iteration_name returns "Iteration N+1" where N   *)
(* is the largest of 0 and the integers parsed from the names that start   *)
(* with "Iteration" (a name whose remainder is not an integer is ignored), *)
(* and the returned name is the name of no existing iteration.             *)
(***************************************************************************)
C20_NextIsLargestNonNegativePlusOne ==
    tpc = "train_new_iteration" =>
        LET N == Largest(ParsedNumbers \cup {0})
        IN  /\ iteration_name = <<"Iteration", " ">> \o Str(N + 1)
            /\ \A k \in 1..Len(iterations) : iterations[k].name # iteration_name

\* "Iteration 9" and "Iteration v2" exist: the name is "Iteration 10"
C20_Witness ==
    /\ tpc = "train_new_iteration"
    /\ \E k \in 1..Len(iterations) : iterations[k].name = <<"Iteration", " ", "9">>
    /\ \E k \in 1..Len(iterations) : iterations[k].name = <<"Iteration", " ", "v", "2">>
    /\ iteration_name = <<"Iteration", " ", "1", "0">>

(***************************************************************************)
(* C19: get_latest_published_iteration_url raises RuntimeError when no     *)
(* iteration of the project has a non-empty publishName; otherwise the URL *)
(* it returns names the publishName of the published iteration with the    *)
(* greatest created, and never that of an unpublished iteration.           *)
(***************************************************************************)
\* the iterations that have a non-empty publishName
PublishedSet ==
    { k \in 1..Len(iterations) : iterations[k].publishName \notin {None, ""} }

C19_UrlNamesLatestPublished ==
    /\ (PublishedSet = {} /\ pc # "get_latest_published_iteration_url")
          => (pc = "raised" /\ error \in {"RuntimeError", "HTTPError"})
    /\ error = "RuntimeError" => PublishedSet = {}
    /\ pc = "url_returned" =>
          /\ PublishedSet # {}
          /\ Len(prediction_url) = 6
          /\ prediction_url[4] = "/detect/iterations/"
          /\ prediction_url[6] = "/image"
          /\ \E k \in PublishedSet :
                /\ prediction_url[5] = iterations[k].publishName
                /\ \A j \in PublishedSet :
                      iterations[j].created <= iterations[k].created
          /\ prediction_url[5] \notin {None, ""}

\* the published iteration created last is listed after an older published
\* one: the URL names it
C19_Witness ==
    /\ pc = "url_returned"
    /\ \E j, k \in PublishedSet :
          /\ j < k
          /\ iterations[j].created < iterations[k].created
          /\ iterations[j].publishName # iterations[k].publishName
          /\ prediction_url[5] = iterations[k].publishName

(***************************************************************************)
(* C21: upload_to_custom_vision sends the images in batches of 50: every   *)
(* send_batch request carries between 1 and 50 images, every request but   *)
(* possibly the last carries exactly 50, the entries whose file exists are *)
(* sent in the order of the uploads dict, each in exactly one request once *)
(* the function has returned, and an entry whose file is missing is in no  *)
(* request.                                                                *)
(***************************************************************************)
\* the file names of the requests, in the order they were sent
RECURSIVE NamesPosted(_)
NamesPosted(reqs) ==
    IF reqs = <<>> THEN <<>>
    ELSE [k \in 1..Len(Head(reqs)) |-> Head(reqs)[k].name] \o NamesPosted(Tail(reqs))

\* the file names of the entries whose file exists, in the order of the dict
ExistingFiles ==
    SelectSeq([k \in 1..Len(uploads) |-> uploads[k].file_name],
              LAMBDA f : f \notin absent)

IsPrefixOf(a, b) == Len(a) <= Len(b) /\ \A k \in 1..Len(a) : a[k] = b[k]

C21_BatchesOfFifty ==
    /\ \A r \in 1..Len(posted) :
          /\ Len(posted[r]) >= 1
          /\ Len(posted[r]) <= 50
          /\ r < Len(posted) => Len(posted[r]) = 50
          /\ \A k \in 1..Len(posted[r]) : posted[r][k].name \notin absent
    /\ IsPrefixOf(NamesPosted(posted), ExistingFiles)
    /\ tpc = "get_next_iteration_name" => NamesPosted(posted) = ExistingFiles

\* 102 entries of which one file is missing: two requests of 50 and one of 1
C21_Witness ==
    /\ tpc = "get_next_iteration_name"
    /\ Len(uploads) = 102
    /\ absent = {51}
    /\ Len(posted) = 3
    /\ Len(posted[3]) = 1
    /\ posted[2][1].name = 52

(***************************************************************************)
(* C22: after a call of run_label_studio, whatever calls came before, the  *)
(* PID file holds the pid of the process started last; before a new        *)
(* process is started, os.kill has been called with SIGTERM on the pid the *)
(* previous run recorded and the old PID file is removed;                  *)
(* stop_label_studio removes the PID file also when the kill fails or the  *)
(* process is gone, and does nothing when there is no PID file.            *)
(***************************************************************************)
\* the calls of os.kill made by the current call of run_label_studio
KillsOfRun == SelectSeq(kills, LAMBDA k : k.run = runs)

C22_PidFileLifecycle ==
    /\ lpc = "returned" =>
          /\ started # <<>>
          /\ pid_file = started[Len(started)]
    /\ lpc \in {"Popen", "write"} =>
          /\ pid_file = 0
          /\ recorded # 0 =>
                /\ Len(KillsOfRun) = 1
                /\ KillsOfRun[1].pid = recorded
          /\ recorded = 0 => KillsOfRun = <<>>
    /\ \A k \in 1..Len(kills) :
          kills[k].outcome \in {"killed", "ProcessLookupError", "Exception"}

\* the third run: the first process was killed, the second was gone when
\* its pid was signalled, and the file holds the pid of the third
C22_Witness ==
    /\ lpc = "returned"
    /\ runs = 3
    /\ Len(started) = 3
    /\ Len(kills) = 2
    /\ kills[1].outcome = "Exception"
    /\ kills[2].outcome = "ProcessLookupError"
    /\ pid_file = started[3]

(***************************************************************************)
(* C23: in the predict pipeline a step is over before the next begins: the *)
(* prediction URL is resolved before an image is predicted, the JSON file  *)
(* is written only after every image was predicted and converted, Label    *)
(* Studio is started only after the JSON file was written, and when a step *)
(* raises no later step runs: no JSON file, no start of Label Studio.      *)
(***************************************************************************)
\* run_label_studio has been entered
StudioEntered == lpc # "ready" \/ runs > 0 \/ kills # <<>> \/ started # <<>>

C23_StepsInOrder ==
    /\ (responses # <<>> \/ coco.images # <<>>) =>
          (Len(prediction_url) = 6 /\ prediction_url[5] = "model-a")
    /\ output_file.written =>
          /\ Len(responses) = Len(coco.images)
          /\ \A i \in 1..Len(coco.images) :
                Len(AnnsOf(coco, i)) = Len(KeptOf(i))
          /\ output_file.content = label_data
          /\ label_data = TaskLoop(coco, 1, <<>>).value
    /\ StudioEntered => output_file.written
    /\ error # "none" => (~output_file.written /\ ~StudioEntered)

\* two images were predicted, the file holds their tasks, and Label Studio
\* runs with its pid recorded, the process of the earlier run signalled
C23_Witness ==
    /\ Len(responses) = 2
    /\ label_data # <<>>
    /\ output_file = [written |-> TRUE, content |-> label_data]
    /\ lpc = "returned"
    /\ Len(kills) = 1
    /\ pid_file = started[1]

(***************************************************************************)
(* C24, as stated: crawl_youtube_trending quits the driver on every path   *)
(* after the driver was created, and returns the image folder if and only  *)
(* if at least one thumbnail was downloaded and verified; otherwise it     *)
(* returns None.                                                           *)
(***************************************************************************)
C24_FolderIffDownloaded ==
    /\ cpc \in {"returned", "raised"} =>
          /\ driver # "running"
          /\ quit_calls = (IF driver = "quit" THEN 1 ELSE 0)
    /\ cpc = "returned" =>
          /\ crawl_result \in {"image_folder", "None"}
          /\ crawl_result = "image_folder" <=> downloaded >= 1

(***************************************************************************)
(* C24, amended: crawl_youtube_trending quits the driver on every path     *)
(* after the driver was created, and returns the image folder if and only  *)
(* if at least one thumbnail was downloaded and verified and the rankings  *)
(* file was written without an exception; otherwise it returns None.       *)
(***************************************************************************)
C24_FolderIffDownloadedAndSaved ==
    /\ cpc \in {"returned", "raised"} =>
          /\ driver # "running"
          /\ driver = "quit" => quit_calls = 1
          /\ driver = "none" => quit_calls = 0
    /\ driver = "running" => quit_calls = 0
    /\ cpc = "returned" =>
          /\ crawl_result \in {"image_folder", "None"}
          /\ crawl_result = "image_folder" <=> (downloaded >= 1 /\ csv_written)
          /\ csv_written => downloaded = Len(video_data)

\* two of three thumbnails were downloaded, the folder is returned and the
\* driver is quit
C24_Witness ==
    /\ cpc = "returned"
    /\ Len(page) = 3
    /\ downloaded = 2
    /\ csv_written
    /\ crawl_result = "image_folder"
    /\ driver = "quit"
    /\ quit_calls = 1
====
